---------------------------- MODULE Spec2Model ----------------------------
(***************************************************************************)
(* A state-machine model of the hft-core matching engine:                  *)
(*   - RingBuffer<T>   (include/hft/core/ring_buffer.hpp)                  *)
(*   - OrderBook       (src/order_book.cpp)                                *)
(*   - Shard           (src/shard.cpp)                                     *)
(*   - MatchingEngine  (src/matching_engine.cpp)                           *)
(*   - IngressCoordinator (src/ingress_coordinator.cpp)                    *)
(*   - OrderRouter     (src/order_router.cpp)                              *)
(*   - IngressOrderGateway (src/backtester.cpp)                            *)
(*                                                                         *)
(* The specifications share the variables:                                 *)
(*   SpecRing    one RingBuffer, one producer and one consumer thread,     *)
(*               every load and store of head_, tail_ and a slot a step;   *)
(*   SpecShard   one Shard worker applying orders to its books;            *)
(*   SpecSession the same worker with setSymbolStatus between orders;      *)
(*   SpecIngress construction of engine and coordinator, and the path      *)
(*               decoder -> mailbox -> producer thread -> shard inbox;     *)
(*   SpecEngine  MatchingEngine start(), shutdown(), submit() and          *)
(*               enqueueToShard() with the worker threads of its shards;   *)
(*   SpecOutbound one Shard worker handing Trades and Events to its        *)
(*               outbound rings, and the consumers of those rings;         *)
(*   SpecRace    two threads inside MatchingEngine::submit on one inbox;   *)
(*   SpecIngressLive the ingress path with every producer thread and       *)
(*               every shard worker scheduled fairly;                      *)
(*   SpecMarket  one Shard worker taking limit and market orders under     *)
(*               small market caps;                                        *)
(*   SpecGateway the backtester's IngressOrderGateway stamping order ids;  *)
(*   SpecTrades  one Shard worker of two symbols and its outbound rings of *)
(*               capacity 1 or 2, with the ids of its Trades;              *)
(*   SpecOverflow the worker of SpecOutbound, scheduled fairly, in front   *)
(*               of outbound rings of capacity 1 or 2;                     *)
(*   SpecStop    SpecIngressLive with the thread inside stop() and the     *)
(*               producers' retries scheduled fairly;                      *)
(*   SpecLifecycle SpecEngine fed through submit() with buy orders only;   *)
(*   SpecOrdering SpecIngress with the orders numbered by the decoder;     *)
(*   SpecGatewayPath the gateway's orders on their way through mailbox,    *)
(*               producer thread and inbox into the books of a started     *)
(*               engine.                                                   *)
(***************************************************************************)
EXTENDS Integers, Sequences, FiniteSets, TLC

(***************************************************************************)
(* Bounds of the model.                                                    *)
(***************************************************************************)
\* largest capacity handed to the RingBuffer constructor
MaxCapacity == 4
\* number of items the producer thread offers to the ring
MaxEnq == 9
\* number of orders the shard worker dequeues
MaxOrders == 3
\* prices of the orders fed to the shard: 1..MaxPrice cents
MaxPrice == 2
\* largest number of shards handed to the MatchingEngine constructor
MaxShards == 3
\* number of orders the decoder submits through the coordinator
MaxSubmit == 2
\* largest value of the engine's drop counter the model follows
MaxDrop == 1

(***************************************************************************)
(* head_ and tail_ are std::uint64_t and wrap at 2^64.  TLC's integers are *)
(* 32 bits wide, so the model wraps the counters at 2^3: like 2^64 it is a  *)
(* power of two larger than every capacity of the model, and the wrap is   *)
(* reached within MaxEnq operations.                                       *)
(***************************************************************************)
CounterModulus == 8

VARIABLES
    \* ---- RingBuffer<T> object (ring_buffer.hpp:71-76)
    rbState,      \* "none" before the constructor ran, "live" after
    capacity_,    \* std::size_t capacity_
    mask_,        \* std::size_t mask_
    mode_,        \* ProducerMode mode_
    buffer_,      \* std::vector<T> buffer_: slot index -> value
    head_,        \* std::atomic<uint64_t> head_
    tail_,        \* std::atomic<uint64_t> tail_
    \* ---- the producer thread inside tryEnqueue
    pPc, pHead, pTail, pItem,
    \* ---- the consumer thread inside tryDequeue
    cPc, cTail, cHead, cOut,
    \* ---- what the two threads observed
    accepted,     \* items for which tryEnqueue returned true, in call order
    returned,     \* items handed out by tryDequeue calls that returned true
    \* ---- Shard (shard.hpp:77-102) and its worker thread (Shard::runLoop)
    books_,       \* std::unordered_map<uint32_t, OrderBook> books_
    status_,      \* std::unordered_map<uint32_t, TradingStatus> status_
    caps,         \* [levels, qty, notional]: marketMaxLevels_, marketMaxQty_,
                  \* marketMaxNotional_
    tradeIdGen_,  \* std::uint64_t tradeIdGen_
    procCount,    \* *processedCounter_ (MatchingEngine::Impl::proc)
    tradesCount,  \* *tradesCounter_ (MatchingEngine::Impl::trades)
    wPc,          \* worker: "top" of the loop, or "done" with the order ev
    ev,           \* Order ev: the local of runLoop, as the handlers left it
    evIn,         \* the order as tryDequeue delivered it
    emitT,        \* the Trades handed to tradeWriter_ while processing ev
    emitE,        \* the Events handed to eventWriter_ while processing ev
    \* ---- the decoder feeding the shard
    nextId,       \* the next order id the decoder assigns (orderSeq)
    symbols,      \* the symbol ids the decoder has resolved
    \* ---- MatchingEngine (matching_engine.cpp:14-21)
    meState,      \* "none", "constructed", or "threw" (the constructor threw)
    numShards,    \* Impl::numShards
    ringCapacity, \* Impl::ringCapacity
    meRunning,    \* Impl::running
    enq, drop,    \* Impl::enq, Impl::drop
    inbox,        \* shard index -> the Orders in the shard's inbox ring
    \* ---- IngressCoordinator (ingress_coordinator.hpp:56-60)
    icState,      \* "none", "constructed", or "threw"
    numProducers_,
    mailboxCapacity_,
    icRunning,    \* running_
    icJoining,    \* stop() is joining the producer threads
    mailbox,      \* producer index -> the Orders in ProducerCtx::mailbox
    thr,          \* producer index -> position of ProducerCtx::thr
    thrEv,        \* producer index -> Order ev of producerLoop
    thrShard,     \* producer index -> std::size_t shard of producerLoop
    \* ---- the process and what was observed
    crashed,      \* the process was terminated (trap, uncaught exception)
    submitted,    \* number of submitFromDecoder calls that returned
    inboxWriters, \* shard index -> producer threads that wrote its inbox
    mailboxReaders, \* producer index -> producer threads that read its mailbox
    \* ---- the Shards of a MatchingEngine and their worker threads
    running_,     \* the shard indexes whose Shard::running_ is true
    worker_,      \* shard index -> position of Shard::worker_ in runLoop
    shardTradeIdGen, \* shard index -> tradeIdGen_ of that Shard
    owed,         \* shard index -> orders that were in the inbox when stop()
                  \* cleared running_ and have not been dequeued since
    \* ---- the thread that calls start() and shutdown()
    ctl,          \* [pc, i]: position in start() / shutdown(), loop index
    \* ---- the thread that calls submit() and enqueueToShard()
    callPc,       \* position in the call, or how the last call returned
    callOrder,    \* the order of the call
    callShard,    \* the shard index of the call
    \* ---- the outbound rings of a Shard and their consumers
    tradeRing,    \* the Trades in tradeRing_, each with the number of its order
    eventRing,    \* the Events in eventRing_, each with the number of its order
    lastTrade,    \* order number of the last Trade the consumer dequeued
    lastEvent,    \* order number of the last Event the consumer dequeued
    outCapacity,  \* the ringCapacity the Shard built its outbound rings with
    lastTradeId,  \* tradeId of the last Trade the consumer dequeued, 0 before
    droppedTradeIds, \* tradeIds of the Trades the full trade ring refused
    \* ---- two threads inside MatchingEngine::submit
    rPc,          \* thread -> position in submit / tryEnqueue
    rHead,        \* thread -> head of tryEnqueue
    rTail,        \* thread -> tail of tryEnqueue
    rItem,        \* thread -> the order of the call (its id)
    \* ---- IngressOrderGateway (backtester.cpp:13-53)
    nextId_,      \* std::uint64_t nextId_
    gwOut         \* the Orders handed to ingress_.submitFromDecoder, in order

ringVars == <<rbState, capacity_, mask_, mode_, buffer_, head_, tail_,
              pPc, pHead, pTail, pItem, cPc, cTail, cHead, cOut,
              accepted, returned>>

shardVars == <<books_, status_, caps, tradeIdGen_, procCount, tradesCount,
               wPc, ev, evIn, emitT, emitE, nextId, symbols>>

ingressVars == <<meState, numShards, ringCapacity, meRunning, enq, drop, inbox,
                 icState, numProducers_, mailboxCapacity_, icRunning, icJoining,
                 mailbox, thr, thrEv, thrShard, crashed, submitted,
                 inboxWriters, mailboxReaders>>

engineVars == <<running_, worker_, shardTradeIdGen, owed, ctl,
                callPc, callOrder, callShard>>

outboundVars == <<tradeRing, eventRing, outCapacity, lastTrade, lastEvent, lastTradeId,
                  droppedTradeIds>>

raceVars == <<rPc, rHead, rTail, rItem>>

gatewayVars == <<nextId_, gwOut>>

vars == <<ringVars, shardVars, ingressVars, engineVars, outboundVars, raceVars,
         gatewayVars>>

(***************************************************************************)
(* Integer helpers.                                                        *)
(***************************************************************************)
Min(a, b) == IF a <= b THEN a ELSE b

\* the C++ operator & on two non-negative integers
RECURSIVE BitAnd(_, _)
BitAnd(a, b) ==
    IF a = 0 \/ b = 0 THEN 0
    ELSE (IF a % 2 = 1 /\ b % 2 = 1 THEN 1 ELSE 0) + 2 * BitAnd(a \div 2, b \div 2)

\* unsigned 64-bit addition and subtraction (wrapping)
Add64(a, b) == (a + b) % CounterModulus
Sub64(a, b) == (a - b + CounterModulus) % CounterModulus

\* x = 2^k for some k >= 0, stated without bit operations
IsPow2(x) == \E k \in 0..10 : x = 2^k

IsPrefix(s, t) == Len(s) <= Len(t) /\ \A i \in 1..Len(s) : s[i] = t[i]

(***************************************************************************)
(* RingBuffer<T>                                                           *)
(***************************************************************************)
\* RingBuffer::RingBuffer(capacityPowerOfTwo, mode): no check of the argument
RingCtor(cap, mode) ==
    /\ rbState = "none"
    /\ rbState' = "live"
    /\ capacity_' = cap
    /\ mask_' = IF cap # 0 THEN cap - 1 ELSE 0
    /\ mode_' = mode
    /\ buffer_' = [i \in 0..(cap - 1) |-> 0]
    /\ head_' = 0
    /\ tail_' = 0
    /\ UNCHANGED <<pPc, pHead, pTail, pItem, cPc, cTail, cHead, cOut, accepted, returned>>
    /\ UNCHANGED <<shardVars, ingressVars, engineVars,
                   outboundVars, raceVars, gatewayVars>>

\* faulty variant: a full test that lets one item too many in
EnqIsFullOffByOne(head, tail) == Sub64(head, tail) > capacity_
\* tryEnqueue: if (head - tail >= capacity_) return false;
EnqIsFull(head, tail) == Sub64(head, tail) >= capacity_

\* idx = counter & mask_
SlotIndex(counter) == BitAnd(counter, mask_)

\* buffer_[idx] as an rvalue.  An index outside the vector is undefined
\* behaviour: the read yields the default value or garbage.
SlotRead(idx) == IF idx \in DOMAIN buffer_ THEN {buffer_[idx]} ELSE {0, -1}

\* buffer_[idx] = item.  An index outside the vector is undefined behaviour;
\* the model lets the write fall outside the ring's slots.
SlotWrite(idx, item) ==
    IF idx \in DOMAIN buffer_ THEN [buffer_ EXCEPT ![idx] = item] ELSE buffer_

\* faulty variant: an ordered comparison in place of the equality, so that the
\* consumer goes on to read a slot when head = tail
DeqIsEmptyOrdered(head, tail) == head < tail
\* tryDequeue: if (head == tail) return false;
DeqIsEmpty(head, tail) == head = tail

\* tryEnqueue, mode_ != Single: return false
EnqWrongMode ==
    /\ rbState = "live" /\ pPc = "idle"
    /\ Len(accepted) < MaxEnq
    /\ mode_ # "Single"
    /\ UNCHANGED ringVars
    /\ UNCHANGED <<shardVars, ingressVars, engineVars,
                   outboundVars, raceVars, gatewayVars>>

\* tryEnqueue: head = head_.load(relaxed)
EnqLoadHead ==
    /\ rbState = "live" /\ pPc = "idle"
    /\ Len(accepted) < MaxEnq
    /\ mode_ = "Single"
    /\ pItem' = Len(accepted) + 1
    /\ pHead' = head_
    /\ pPc' = "loadTail"
    /\ UNCHANGED <<rbState, capacity_, mask_, mode_, buffer_, head_, tail_,
                   pTail, cPc, cTail, cHead, cOut, accepted, returned>>
    /\ UNCHANGED <<shardVars, ingressVars, engineVars,
                   outboundVars, raceVars, gatewayVars>>

\* tryEnqueue: tail = tail_.load(acquire)
EnqLoadTail ==
    /\ pPc = "loadTail"
    /\ pTail' = tail_
    /\ pPc' = "check"
    /\ UNCHANGED <<rbState, capacity_, mask_, mode_, buffer_, head_, tail_,
                   pHead, pItem, cPc, cTail, cHead, cOut, accepted, returned>>
    /\ UNCHANGED <<shardVars, ingressVars, engineVars,
                   outboundVars, raceVars, gatewayVars>>

\* tryEnqueue: the ring is full, return false
EnqFull ==
    /\ pPc = "check"
    /\ EnqIsFull(pHead, pTail)
    /\ pPc' = "idle"
    /\ UNCHANGED <<rbState, capacity_, mask_, mode_, buffer_, head_, tail_,
                   pHead, pTail, pItem, cPc, cTail, cHead, cOut, accepted, returned>>
    /\ UNCHANGED <<shardVars, ingressVars, engineVars,
                   outboundVars, raceVars, gatewayVars>>

\* tryEnqueue: buffer_[idx] = item
EnqWriteSlot ==
    /\ pPc = "check"
    /\ ~EnqIsFull(pHead, pTail)
    /\ buffer_' = SlotWrite(SlotIndex(pHead), pItem)
    /\ pPc' = "store"
    /\ UNCHANGED <<rbState, capacity_, mask_, mode_, head_, tail_,
                   pHead, pTail, pItem, cPc, cTail, cHead, cOut, accepted, returned>>
    /\ UNCHANGED <<shardVars, ingressVars, engineVars,
                   outboundVars, raceVars, gatewayVars>>

\* tryEnqueue: head_.store(head + 1, release); return true
EnqStoreHead ==
    /\ pPc = "store"
    /\ head_' = Add64(pHead, 1)
    /\ accepted' = Append(accepted, pItem)
    /\ pPc' = "idle"
    /\ UNCHANGED <<rbState, capacity_, mask_, mode_, buffer_, tail_,
                   pHead, pTail, pItem, cPc, cTail, cHead, cOut, returned>>
    /\ UNCHANGED <<shardVars, ingressVars, engineVars,
                   outboundVars, raceVars, gatewayVars>>

\* tryDequeue: tail = tail_.load(relaxed)
DeqLoadTail ==
    /\ rbState = "live" /\ cPc = "idle"
    /\ cTail' = tail_
    /\ cPc' = "loadHead"
    /\ UNCHANGED <<rbState, capacity_, mask_, mode_, buffer_, head_, tail_,
                   pPc, pHead, pTail, pItem, cHead, cOut, accepted, returned>>
    /\ UNCHANGED <<shardVars, ingressVars, engineVars,
                   outboundVars, raceVars, gatewayVars>>

\* tryDequeue: head = head_.load(acquire)
DeqLoadHead ==
    /\ cPc = "loadHead"
    /\ cHead' = head_
    /\ cPc' = "check"
    /\ UNCHANGED <<rbState, capacity_, mask_, mode_, buffer_, head_, tail_,
                   pPc, pHead, pTail, pItem, cTail, cOut, accepted, returned>>
    /\ UNCHANGED <<shardVars, ingressVars, engineVars,
                   outboundVars, raceVars, gatewayVars>>

\* tryDequeue: the ring is empty, return false
DeqEmpty ==
    /\ cPc = "check"
    /\ DeqIsEmpty(cHead, cTail)
    /\ cPc' = "idle"
    /\ UNCHANGED <<rbState, capacity_, mask_, mode_, buffer_, head_, tail_,
                   pPc, pHead, pTail, pItem, cTail, cHead, cOut, accepted, returned>>
    /\ UNCHANGED <<shardVars, ingressVars, engineVars,
                   outboundVars, raceVars, gatewayVars>>

\* tryDequeue: out = std::move(buffer_[idx])
DeqReadSlot ==
    /\ cPc = "check"
    /\ ~DeqIsEmpty(cHead, cTail)
    /\ cOut' \in SlotRead(SlotIndex(cTail))
    /\ cPc' = "store"
    /\ UNCHANGED <<rbState, capacity_, mask_, mode_, buffer_, head_, tail_,
                   pPc, pHead, pTail, pItem, cTail, cHead, accepted, returned>>
    /\ UNCHANGED <<shardVars, ingressVars, engineVars,
                   outboundVars, raceVars, gatewayVars>>

\* tryDequeue: tail_.store(tail + 1, release); return true
DeqStoreTail ==
    /\ cPc = "store"
    /\ tail_' = Add64(cTail, 1)
    /\ returned' = Append(returned, cOut)
    /\ cPc' = "idle"
    /\ UNCHANGED <<rbState, capacity_, mask_, mode_, buffer_, head_,
                   pPc, pHead, pTail, pItem, cTail, cHead, cOut, accepted>>
    /\ UNCHANGED <<shardVars, ingressVars, engineVars,
                   outboundVars, raceVars, gatewayVars>>

InitRing ==
    /\ rbState = "none"
    /\ capacity_ = 0 /\ mask_ = 0 /\ mode_ = "Single"
    /\ buffer_ = <<>>
    /\ head_ = 0 /\ tail_ = 0
    /\ pPc = "idle" /\ pHead = 0 /\ pTail = 0 /\ pItem = 0
    /\ cPc = "idle" /\ cTail = 0 /\ cHead = 0 /\ cOut = 0
    /\ accepted = <<>> /\ returned = <<>>

NextRing ==
    \/ \E cap \in 0..MaxCapacity, mode \in {"Single", "Multi"} : RingCtor(cap, mode)
    \/ EnqWrongMode
    \/ EnqLoadHead
    \/ EnqLoadTail
    \/ EnqFull
    \/ EnqWriteSlot
    \/ EnqStoreHead
    \/ DeqLoadTail
    \/ DeqLoadHead
    \/ DeqEmpty
    \/ DeqReadSlot
    \/ DeqStoreTail

(***************************************************************************)
(* Finite maps (std::map, std::unordered_map) as functions.                *)
(***************************************************************************)
EmptyMap == [x \in {} |-> 0]
MapPut(m, k, v) == [x \in (DOMAIN m) \cup {k} |-> IF x = k THEN v ELSE m[x]]
MapDel(m, k) == [x \in (DOMAIN m) \ {k} |-> m[x]]

MinOf(S) == CHOOSE x \in S : \A y \in S : x <= y
MaxOf(S) == CHOOSE x \in S : \A y \in S : x >= y

(***************************************************************************)
(* OrderBook (order_book.hpp, order_book.cpp).                             *)
(*                                                                         *)
(* A book is a record                                                      *)
(*   bids, asks : price -> level, a level being [h, q]: h the address of   *)
(*                the std::list inside the map node, q the list itself;    *)
(*   idToLoc    : order id -> Locator [isBid, price, level, it];           *)
(*   alloc      : the next address the allocator hands out;                *)
(*   ub         : TRUE once an operation dereferenced a dangling Locator.  *)
(* A list element is the resting Order with h, the address of its node:    *)
(* Locator::level and Locator::it are such addresses.                      *)
(***************************************************************************)
EmptyBook == [bids |-> EmptyMap, asks |-> EmptyMap, idToLoc |-> EmptyMap,
              alloc |-> 1, ub |-> FALSE]

\* the resting copy of an Order in a std::list node at address h
RestingOrder(o, h) ==
    [id |-> o.id, side |-> o.side, priceCents |-> o.priceCents, qty |-> o.qty, h |-> h]

SideMap(bk, isBid) == IF isBid THEN bk.bids ELSE bk.asks
WithSideMap(bk, isBid, m) ==
    IF isBid THEN [bk EXCEPT !.bids = m] ELSE [bk EXCEPT !.asks = m]

\* faulty variant: the Locator is not installed
AddOrderNoLocator(bk, o, isBid) ==
    LET m    == SideMap(bk, isBid)
        p    == o.priceCents
        isNew == p \notin DOMAIN m
        lvl  == IF isNew THEN [h |-> bk.alloc, q |-> <<>>] ELSE m[p]
        nh   == IF isNew THEN bk.alloc + 1 ELSE bk.alloc
        lvl2 == [lvl EXCEPT !.q = Append(lvl.q, RestingOrder(o, nh))]
    IN  [WithSideMap(bk, isBid, MapPut(m, p, lvl2)) EXCEPT !.alloc = nh + 1]
\* faulty variant: the order goes to the front of its level
AddOrderAtFront(bk, o, isBid) ==
    LET m    == SideMap(bk, isBid)
        p    == o.priceCents
        isNew == p \notin DOMAIN m
        lvl  == IF isNew THEN [h |-> bk.alloc, q |-> <<>>] ELSE m[p]
        nh   == IF isNew THEN bk.alloc + 1 ELSE bk.alloc
        lvl2 == [lvl EXCEPT !.q = <<RestingOrder(o, nh)>> \o lvl.q]
        loc  == [isBid |-> isBid, price |-> p, level |-> lvl.h, it |-> nh]
    IN  [WithSideMap(bk, isBid, MapPut(m, p, lvl2)) EXCEPT
            !.idToLoc = MapPut(bk.idToLoc, o.id, loc),
            !.alloc = nh + 1]
\* addBid / addAsk: auto& lvl = side[o.priceCents]; lvl.emplace_back(o);
\* idToLoc[o.id] = Locator{isBid, o.priceCents, &lvl, prev(lvl.end())}
AddOrder(bk, o, isBid) ==
    LET m    == SideMap(bk, isBid)
        p    == o.priceCents
        isNew == p \notin DOMAIN m
        lvl  == IF isNew THEN [h |-> bk.alloc, q |-> <<>>] ELSE m[p]
        nh   == IF isNew THEN bk.alloc + 1 ELSE bk.alloc
        lvl2 == [lvl EXCEPT !.q = Append(lvl.q, RestingOrder(o, nh))]
        loc  == [isBid |-> isBid, price |-> p, level |-> lvl.h, it |-> nh]
    IN  [WithSideMap(bk, isBid, MapPut(m, p, lvl2)) EXCEPT
            !.idToLoc = MapPut(bk.idToLoc, o.id, loc),
            !.alloc = nh + 1]

addBid(bk, bid) == AddOrder(bk, bid, TRUE)
addAsk(bk, ask) == AddOrder(bk, ask, FALSE)

\* bestBid / bestAsk: -1 on an empty side
bestBid(bk) == IF DOMAIN bk.bids = {} THEN -1 ELSE MaxOf(DOMAIN bk.bids)
bestAsk(bk) == IF DOMAIN bk.asks = {} THEN -1 ELSE MinOf(DOMAIN bk.asks)

\* faulty variant: the level at the other end of the map
BestKeyWorst(bk, isBid) ==
    IF isBid THEN MinOf(DOMAIN bk.bids) ELSE MaxOf(DOMAIN bk.asks)
\* the key of the best level: bids.rbegin() / asks.begin()
BestKey(bk, isBid) ==
    IF isBid THEN MaxOf(DOMAIN bk.bids) ELSE MinOf(DOMAIN bk.asks)

\* peekBestBidMutable / peekBestAskMutable return a non-null pointer
HasBest(bk, isBid) ==
    /\ DOMAIN SideMap(bk, isBid) # {}
    /\ SideMap(bk, isBid)[BestKey(bk, isBid)].q # <<>>

\* the Order that pointer designates: &lvl.front()
PeekBest(bk, isBid) == SideMap(bk, isBid)[BestKey(bk, isBid)].q[1]

\* a write through that pointer: best->qty = qty
SetBestQty(bk, isBid, qty) ==
    LET m == SideMap(bk, isBid)
        k == BestKey(bk, isBid)
    IN  WithSideMap(bk, isBid, [m EXCEPT ![k].q[1].qty = qty])

\* popBestBid / popBestAsk
PopBest(bk, isBid) ==
    LET m == SideMap(bk, isBid) IN
    IF DOMAIN m = {} THEN bk
    ELSE
        LET k    == BestKey(bk, isBid)
            lvl  == m[k]
            \* if (!lvl.empty()) { idToLoc.erase(head->id); lvl.pop_front(); }
            q2   == IF lvl.q # <<>> THEN Tail(lvl.q) ELSE lvl.q
            loc2 == IF lvl.q # <<>> THEN MapDel(bk.idToLoc, lvl.q[1].id) ELSE bk.idToLoc
            \* if (lvl.empty()) side.erase(it);
            m2   == IF q2 = <<>> THEN MapDel(m, k) ELSE [m EXCEPT ![k].q = q2]
        IN  [WithSideMap(bk, isBid, m2) EXCEPT !.idToLoc = loc2]

popBestBid(bk) == PopBest(bk, TRUE)
popBestAsk(bk) == PopBest(bk, FALSE)

RECURSIVE SumQty(_)
SumQty(q) == IF q = <<>> THEN 0 ELSE q[1].qty + SumQty(Tail(q))

RECURSIVE SumLevels(_, _)
SumLevels(m, keys) ==
    IF keys = {} THEN 0
    ELSE LET k == CHOOSE x \in keys : TRUE
         IN  SumQty(m[k].q) + SumLevels(m, keys \ {k})

\* sum of the ask quantities at prices <= maxPriceCents
availableAskUpTo(bk, maxPriceCents) ==
    SumLevels(bk.asks, {p \in DOMAIN bk.asks : p <= maxPriceCents})
\* sum of the bid quantities at prices >= minPriceCents
availableBidDownTo(bk, minPriceCents) ==
    SumLevels(bk.bids, {p \in DOMAIN bk.bids : p >= minPriceCents})

\* the levels (side, price) whose std::list lives at address h
LevelsAt(bk, h) ==
    {k \in ({TRUE} \X DOMAIN bk.bids) \cup ({FALSE} \X DOMAIN bk.asks) :
        SideMap(bk, k[1])[k[2]].h = h}

\* the Locator designates a live list node
LocatorLive(bk, loc) ==
    \E k \in LevelsAt(bk, loc.level) :
        \E i \in 1..Len(SideMap(bk, k[1])[k[2]].q) : SideMap(bk, k[1])[k[2]].q[i].h = loc.it

\* loc.level->erase(loc.it)
EraseNode(bk, loc) ==
    LET k == CHOOSE x \in LevelsAt(bk, loc.level) : TRUE
        m == SideMap(bk, k[1])
    IN  WithSideMap(bk, k[1],
            [m EXCEPT ![k[2]].q = SelectSeq(m[k[2]].q, LAMBDA n : n.h # loc.it)])

\* cancelById, "Clean empty price level"
CleanLevel(bk, loc) ==
    LET m == SideMap(bk, loc.isBid) IN
    IF loc.price \in DOMAIN m /\ m[loc.price].q = <<>>
    THEN WithSideMap(bk, loc.isBid, MapDel(m, loc.price))
    ELSE bk

\* faulty variant: the empty level is not cleaned
CancelNoClean(bk, orderId) ==
    IF orderId \notin DOMAIN bk.idToLoc THEN [bk |-> bk, found |-> FALSE]
    ELSE LET loc == bk.idToLoc[orderId] IN
         IF ~LocatorLive(bk, loc) THEN [bk |-> [bk EXCEPT !.ub = TRUE], found |-> TRUE]
         ELSE [bk |-> [EraseNode(bk, loc) EXCEPT !.idToLoc = MapDel(bk.idToLoc, orderId)],
               found |-> TRUE]
\* faulty variant: the Locator of the cancelled order is left in idToLoc
CancelKeepsLocator(bk, orderId) ==
    IF orderId \notin DOMAIN bk.idToLoc THEN [bk |-> bk, found |-> FALSE]
    ELSE LET loc == bk.idToLoc[orderId] IN
         IF ~LocatorLive(bk, loc) THEN [bk |-> [bk EXCEPT !.ub = TRUE], found |-> TRUE]
         ELSE [bk |-> CleanLevel(EraseNode(bk, loc), loc), found |-> TRUE]
\* cancelById: [bk: the book afterwards, found: the value returned].
\* Erasing through a Locator that designates no live node is undefined
\* behaviour; the model records it in ub.
cancelById(bk, orderId) ==
    IF orderId \notin DOMAIN bk.idToLoc THEN [bk |-> bk, found |-> FALSE]
    ELSE LET loc == bk.idToLoc[orderId] IN
         IF ~LocatorLive(bk, loc) THEN [bk |-> [bk EXCEPT !.ub = TRUE], found |-> TRUE]
         ELSE [bk |-> CleanLevel(
                         [EraseNode(bk, loc) EXCEPT !.idToLoc = MapDel(bk.idToLoc, orderId)],
                         loc),
               found |-> TRUE]

\* faulty variant: the replacement is inserted whether or not the target
\* was found
ReplaceInsertsAnyway(bk, oldId, replacement) ==
    LET c == cancelById(bk, oldId) IN
    [bk |-> IF replacement.side = "BUY" THEN addBid(c.bk, replacement)
            ELSE addAsk(c.bk, replacement),
     found |-> c.found]
\* replaceById
replaceById(bk, oldId, replacement) ==
    LET c == cancelById(bk, oldId) IN
    IF ~c.found THEN [bk |-> bk, found |-> FALSE]
    ELSE [bk |-> IF replacement.side = "BUY" THEN addBid(c.bk, replacement)
                 ELSE addAsk(c.bk, replacement),
          found |-> TRUE]

(***************************************************************************)
(* Shard (shard.hpp, shard.cpp).                                           *)
(***************************************************************************)
\* int marketMaxLevels_{128}
marketMaxLevels_ == 128
\* int marketMaxQty_{1'000'000}
marketMaxQty_ == 1000000
\* std::int64_t marketMaxNotional_{9'000'000'000'000'000}: beyond TLC's 32-bit
\* integers, modelled by a cap that is likewise out of reach of every sweep
marketMaxNotional_ == 2000000000

\* the caps of a Shard as it is built (shard.hpp:100-102)
DefaultCaps ==
    [levels |-> marketMaxLevels_, qty |-> marketMaxQty_, notional |-> marketMaxNotional_]

\* Order{} (order.hpp:7-27)
DefaultOrder ==
    [id |-> 0, symbolId |-> 0, op |-> "New", side |-> "BUY", type |-> "LIMIT",
     tif |-> "Day", postOnly |-> FALSE, priceCents |-> 0, qty |-> 0,
     targetId |-> 0, newPriceCents |-> 0, newQty |-> 0]

\* getSymbolStatus
getSymbolStatus(symbolId) ==
    IF symbolId \in DOMAIN status_ THEN status_[symbolId] ELSE "Open"

(***************************************************************************)
(* The handlers work on a record x:                                        *)
(*   order  the Order& the handler was given (matchLimit* writes its qty)  *)
(*   bk     the OrderBook& of the order's symbol                           *)
(*   tid    tradeIdGen_        tc   *tradesCounter_                        *)
(*   tr     the Trades handed to tradeWriter_.tryEnqueue, in order         *)
(*   evs    the Events handed to eventWriter_.tryEnqueue, in order         *)
(***************************************************************************)

\* emitReject
emitReject(x, order) ==
    [x EXCEPT !.evs = Append(x.evs,
        [type |-> "Reject", orderId |-> order.id, relatedId |-> 0,
         symbolId |-> order.symbolId, side |-> order.side,
         priceCents |-> order.priceCents, qty |-> order.qty,
         remaining |-> 0, liquidity |-> "None"])]

\* emitExec
emitExec(x, side, aggressorId, restingId, symbolId, priceCents, qty, remaining) ==
    [x EXCEPT !.evs = Append(x.evs,
        [type |-> "Exec", orderId |-> aggressorId, relatedId |-> restingId,
         symbolId |-> symbolId, side |-> side,
         priceCents |-> priceCents, qty |-> qty,
         remaining |-> remaining, liquidity |-> "Taker"])]

\* faulty variant: an order that the book can fill exactly is rejected too
shouldRejectFOKInclusive(order, bk) ==
    IF order.tif # "FOK" THEN FALSE
    ELSE IF order.side = "BUY"
         THEN availableAskUpTo(bk, order.priceCents) <= order.qty
         ELSE availableBidDownTo(bk, order.priceCents) <= order.qty
\* shouldRejectFOK
shouldRejectFOK(order, bk) ==
    IF order.tif # "FOK" THEN FALSE
    ELSE IF order.side = "BUY"
         THEN availableAskUpTo(bk, order.priceCents) < order.qty
         ELSE availableBidDownTo(bk, order.priceCents) < order.qty

\* faulty variant: the fill is priced at the aggressor's limit
FillPriceOfAggressor(order, best) == order.priceCents
\* tr.priceCents = bestAsk->priceCents (and the price handed to emitExec)
FillPrice(order, best) == best.priceCents

\* faulty variant: the resting order is always filled in full
FillQtyOfResting(remaining, best) == best.qty
\* const int qty = std::min(remaining, bestAsk->qty)
FillQty(remaining, best) == Min(remaining, best.qty)

\* faulty variant: tradeIdGen_ is advanced for the first fill only
FillKeepsTradeId(x, isBuy, remaining, qty) ==
    LET order == x.order
        best  == PeekBest(x.bk, ~isBuy)
        left  == best.qty - qty
        rem2  == remaining - qty
        bk1   == SetBestQty(x.bk, ~isBuy, left)
        tr    == [tradeId |-> IF x.tid = 0 THEN 1 ELSE x.tid, symbolId |-> order.symbolId,
                  priceCents |-> FillPrice(order, best), qty |-> qty,
                  buyOrderId  |-> IF isBuy THEN order.id ELSE best.id,
                  sellOrderId |-> IF isBuy THEN best.id ELSE order.id]
        x1    == [x EXCEPT !.tid = IF x.tid = 0 THEN 1 ELSE x.tid, !.tr = Append(x.tr, tr)]
        x2    == emitExec(x1, IF isBuy THEN "BUY" ELSE "SELL", order.id, best.id,
                          order.symbolId, FillPrice(order, best), qty, rem2)
    IN  [x2 EXCEPT !.tc = x.tc + 1,
                   !.bk = IF left <= 0 THEN PopBest(bk1, ~isBuy) ELSE bk1]

\* One pass of the body of the matching loops, for an aggressor that buys
\* (the resting side is the asks) or sells (the bids): the fill against the
\* best resting order, the Trade, the Exec, the counter, the pop.
Fill(x, isBuy, remaining, qty) ==
    LET order == x.order
        best  == PeekBest(x.bk, ~isBuy)
        left  == best.qty - qty
        rem2  == remaining - qty
        bk1   == SetBestQty(x.bk, ~isBuy, left)
        tr    == [tradeId |-> x.tid + 1, symbolId |-> order.symbolId,
                  priceCents |-> FillPrice(order, best), qty |-> qty,
                  buyOrderId  |-> IF isBuy THEN order.id ELSE best.id,
                  sellOrderId |-> IF isBuy THEN best.id ELSE order.id]
        x1    == [x EXCEPT !.tid = x.tid + 1, !.tr = Append(x.tr, tr)]
        x2    == emitExec(x1, IF isBuy THEN "BUY" ELSE "SELL", order.id, best.id,
                          order.symbolId, FillPrice(order, best), qty, rem2)
    IN  [x2 EXCEPT !.tc = x.tc + 1,
                   !.bk = IF left <= 0 THEN PopBest(bk1, ~isBuy) ELSE bk1]

\* the loop guard of matchLimitBuy / matchLimitSell on the price
Marketable(order, best, isBuy) ==
    IF isBuy THEN best.priceCents <= order.priceCents
    ELSE best.priceCents >= order.priceCents

\* the while loop of matchLimitBuy / matchLimitSell: [x, remaining]
RECURSIVE LimitLoop(_, _, _)
LimitLoop(x, isBuy, remaining) ==
    IF remaining > 0 /\ HasBest(x.bk, ~isBuy)
       /\ Marketable(x.order, PeekBest(x.bk, ~isBuy), isBuy)
    THEN LET qty == FillQty(remaining, PeekBest(x.bk, ~isBuy))
         IN  LimitLoop(Fill(x, isBuy, remaining, qty), isBuy, remaining - qty)
    ELSE [x |-> x, remaining |-> remaining]

\* if (remaining > 0) { order.qty = remaining; book.addBid(order); }
PostResidual(x, isBuy, remaining) ==
    IF remaining > 0
    THEN LET o2 == [x.order EXCEPT !.qty = remaining]
         IN  [x EXCEPT !.order = o2, !.bk = AddOrder(x.bk, o2, isBuy)]
    ELSE x

matchLimitBuy(x) ==
    LET r == LimitLoop(x, TRUE, x.order.qty) IN PostResidual(r.x, TRUE, r.remaining)

matchLimitSell(x) ==
    LET r == LimitLoop(x, FALSE, x.order.qty) IN PostResidual(r.x, FALSE, r.remaining)

\* faulty variant: the residual of an IOC order stays in the book
handleIOCPostKeeps(x) == x

\* handleIOCPost
handleIOCPost(x) ==
    IF x.order.tif = "IOC"
    THEN [x EXCEPT !.bk = cancelById(x.bk, x.order.id).bk]
    ELSE x

\* processLimit
processLimit(x) ==
    IF shouldRejectFOK(x.order, x.bk) THEN emitReject(x, x.order)
    ELSE handleIOCPost(IF x.order.side = "BUY" THEN matchLimitBuy(x) ELSE matchLimitSell(x))

\* the while loop of matchMarketBuy / matchMarketSell
RECURSIVE MarketLoop(_, _, _, _, _)
MarketLoop(x, isBuy, remaining, levels, notional) ==
    IF remaining > 0 /\ HasBest(x.bk, ~isBuy) /\ levels < caps.levels
    THEN LET best == PeekBest(x.bk, ~isBuy)
             qty  == FillQty(remaining, best)
             n2   == notional + qty * best.priceCents
         IN  IF n2 > caps.notional THEN x
             ELSE MarketLoop(Fill(x, isBuy, remaining, qty), isBuy, remaining - qty,
                             IF best.qty - qty <= 0 THEN levels + 1 ELSE levels, n2)
    ELSE x

\* faulty variant: the quantity of the order is not capped
matchMarketBuyUncapped(x) == MarketLoop(x, TRUE, x.order.qty, 0, 0)

matchMarketBuy(x) == MarketLoop(x, TRUE, Min(x.order.qty, caps.qty), 0, 0)
matchMarketSell(x) == MarketLoop(x, FALSE, Min(x.order.qty, caps.qty), 0, 0)

\* faulty variant: a market order goes through the limit matching, which
\* posts what is left of it
processMarketPosts(x) ==
    IF x.order.side = "BUY" THEN matchLimitBuy(x) ELSE matchLimitSell(x)

\* processMarket
processMarket(x) ==
    IF x.order.side = "BUY" THEN matchMarketBuy(x) ELSE matchMarketSell(x)

\* handleCancel
handleCancel(x) == [x EXCEPT !.bk = cancelById(x.bk, x.order.targetId).bk]

\* the replacement Order that handleReplace builds from repl
Replacement(repl) ==
    [repl EXCEPT !.qty = IF repl.newQty > 0 THEN repl.newQty ELSE repl.qty,
                 !.priceCents = IF repl.newPriceCents # 0 THEN repl.newPriceCents
                                ELSE repl.priceCents,
                 !.op = "New"]

\* handleReplace
handleReplace(x) ==
    [x EXCEPT !.bk = replaceById(x.bk, x.order.targetId, Replacement(x.order)).bk]

\* runLoop, "Operation dispatch"
Dispatch(x) ==
    IF x.order.op = "Cancel" THEN handleCancel(x)
    ELSE IF x.order.op = "Replace" THEN handleReplace(x)
    ELSE IF x.order.type = "LIMIT" THEN processLimit(x)
    ELSE IF x.order.type = "MARKET" THEN processMarket(x)
    ELSE x

\* faulty variant: the gate rejects a Cancel like any other order
GateRejectsAll(x) ==
    IF getSymbolStatus(x.order.symbolId) # "Open" THEN emitReject(x, x.order)
    ELSE Dispatch(x)

\* runLoop, "Gate by trading status"
Gate(x) ==
    IF getSymbolStatus(x.order.symbolId) # "Open"
    THEN (IF x.order.op = "Cancel" THEN handleCancel(x) ELSE emitReject(x, x.order))
    ELSE Dispatch(x)

\* auto& book = books_[ev.symbolId]
BookOf(symbolId) ==
    IF symbolId \in DOMAIN books_ THEN books_[symbolId] ELSE EmptyBook

\* One iteration of runLoop in which tryDequeue delivered the order o: the
\* gate, the dispatch and the processed counter.  The run is cut off after
\* limit orders.
ProcessOrderUpTo(o, limit) ==
    /\ wPc = "top"
    /\ procCount < limit
    /\ \E x \in {Gate([order |-> o, bk |-> BookOf(o.symbolId), tid |-> tradeIdGen_,
                         tc |-> tradesCount, tr |-> <<>>, evs |-> <<>>])} :
           /\ books_' = MapPut(books_, o.symbolId, x.bk)
           /\ tradeIdGen_' = x.tid
           /\ tradesCount' = x.tc
           /\ ev' = x.order
           /\ emitT' = x.tr
           /\ emitE' = x.evs
    /\ evIn' = o
    /\ procCount' = procCount + 1
    /\ wPc' = "done"
    /\ nextId' = IF o.id = nextId THEN nextId + 1 ELSE nextId
    /\ UNCHANGED <<status_, caps, symbols>>
    /\ UNCHANGED <<ringVars, ingressVars, engineVars,
                   outboundVars, raceVars, gatewayVars>>

ProcessOrder(o) == ProcessOrderUpTo(o, MaxOrders)

\* The worker is back at the top of the loop.  ev is written by the next
\* tryDequeue before it is read again, so its value here is dead: the model
\* resets it, and the per-order records of what was emitted, to their defaults.
LoopTop ==
    /\ wPc = "done"
    /\ wPc' = "top"
    /\ ev' = DefaultOrder /\ evIn' = DefaultOrder
    /\ emitT' = <<>> /\ emitE' = <<>>
    /\ UNCHANGED <<books_, status_, caps, tradeIdGen_, procCount, tradesCount, nextId, symbols>>
    /\ UNCHANGED <<ringVars, ingressVars, engineVars,
                   outboundVars, raceVars, gatewayVars>>

(***************************************************************************)
(* The orders the decoder feeds.  Ids are unique (section 3 of the         *)
(* specification): a New takes the next id of the decoder's sequence, a     *)
(* Replace takes the next id (random_sim, the strategy gateway) or reuses  *)
(* its target's id (the replay drivers); a Cancel carries id 0             *)
(* (random_sim).  Cancel and Replace leave qty and priceCents at 0, as     *)
(* every producer of the repository does.                                  *)
(***************************************************************************)
Prices == 1..MaxPrice
\* newQty of a Replace: 0 (keep) or a number of lots
Qtys == 0..2
Sides == {"BUY", "SELL"}
\* a New carries a quantity of at least one lot
NewQtys == 1..2
\* time in force and postOnly of the limit orders
LimitKinds == {<<"Day", FALSE>>, <<"Day", TRUE>>, <<"IOC", FALSE>>, <<"FOK", FALSE>>}
\* id and side of a Replace: random_sim takes a fresh id and sets the side,
\* the replay drivers reuse the target's id and leave the side at BUY
ReplaceKinds == {<<"fresh", "BUY">>, <<"fresh", "SELL">>, <<"target", "BUY">>}
\* time in force of the market orders (the gateway's default is IOC)
MarketTIFs == {"IOC", "FOK"}

\* a New limit order, as random_sim, the replay drivers and the gateway's
\* submitNewLimit build it
NewLimit(sym, s, t, po, p, q) ==
    [DefaultOrder EXCEPT !.id = nextId, !.symbolId = sym, !.side = s, !.tif = t,
                         !.postOnly = po, !.priceCents = p, !.qty = q]

\* a New market order, as the gateway's submitNewMarket builds it
NewMarket(sym, s, t, q) ==
    [DefaultOrder EXCEPT !.id = nextId, !.symbolId = sym, !.side = s, !.type = "MARKET",
                         !.tif = t, !.qty = q]

\* a Cancel, as random_sim builds it
CancelOf(sym, tg) ==
    [DefaultOrder EXCEPT !.symbolId = sym, !.op = "Cancel", !.targetId = tg]

\* a Replace, as random_sim builds it (the replay drivers give it the id of
\* its target)
ReplaceOf(id, sym, s, tg, np, nq) ==
    [DefaultOrder EXCEPT !.id = id, !.symbolId = sym, !.op = "Replace", !.side = s,
                         !.targetId = tg, !.newPriceCents = np, !.newQty = nq]

\* the Shard and its worker but for the caps and the symbols it is fed
InitBooks ==
    /\ books_ = EmptyMap
    /\ status_ = EmptyMap
    /\ tradeIdGen_ = 0
    /\ procCount = 0
    /\ tradesCount = 0
    /\ wPc = "top"
    /\ ev = DefaultOrder /\ evIn = DefaultOrder
    /\ emitT = <<>> /\ emitE = <<>>
    /\ nextId = 1

\* one symbol, symbol 0
InitWorker == InitBooks /\ symbols = {0}

InitShard == InitWorker /\ caps = DefaultCaps

NextShard ==
    \/ \E sym \in symbols, s \in Sides, k \in LimitKinds, p \in Prices, q \in NewQtys :
          ProcessOrder(NewLimit(sym, s, k[1], k[2], p, q))
    \/ \E sym \in symbols, s \in Sides, t \in MarketTIFs, q \in NewQtys :
          ProcessOrder(NewMarket(sym, s, t, q))
    \/ \E sym \in symbols, tg \in 1..(nextId - 1) :
          ProcessOrder(CancelOf(sym, tg))
    \/ \E sym \in symbols, k \in ReplaceKinds, tg \in 1..(nextId - 1),
             np \in 0..MaxPrice, nq \in Qtys :
          ProcessOrder(ReplaceOf(IF k[1] = "fresh" THEN nextId ELSE tg, sym, k[2], tg, np, nq))
    \/ LoopTop

\* TradingStatus
TradingStatuses == {"Open", "Halted", "Closed"}

\* setSymbolStatus: status_[symbolId] = st.  status_ is a plain map that the
\* worker reads once per order (the gate), so the call is made while the
\* worker is not inside an iteration: before start(), or between stop() and
\* the next start().  A change after the last order of a run has no reader.
SetSymbolStatus(symbolId, st) ==
    /\ wPc = "top"
    /\ procCount < MaxOrders
    /\ getSymbolStatus(symbolId) # st
    /\ status_' = MapPut(status_, symbolId, st)
    /\ UNCHANGED <<books_, caps, tradeIdGen_, procCount, tradesCount, wPc, ev, evIn,
                   emitT, emitE, nextId, symbols>>
    /\ UNCHANGED <<ringVars, ingressVars, engineVars,
                   outboundVars, raceVars, gatewayVars>>

\* The shard with its session controls.  The gate reads neither tif nor
\* postOnly, so the limit orders of this specification are Day orders and
\* the market orders IOC orders (the gateway's defaults), and a Replace
\* carries a new quantity of one lot.
NextSession ==
    \/ \E sym \in symbols, s \in Sides, p \in Prices, q \in NewQtys :
          ProcessOrder(NewLimit(sym, s, "Day", FALSE, p, q))
    \/ \E sym \in symbols, s \in Sides, q \in NewQtys :
          ProcessOrder(NewMarket(sym, s, "IOC", q))
    \/ \E sym \in symbols, tg \in 1..(nextId - 1) :
          ProcessOrder(CancelOf(sym, tg))
    \/ \E sym \in symbols, k \in ReplaceKinds, tg \in 1..(nextId - 1),
             np \in 0..MaxPrice :
          ProcessOrder(ReplaceOf(IF k[1] = "fresh" THEN nextId ELSE tg, sym, k[2], tg, np, 1))
    \/ LoopTop
    \/ \E sym \in symbols, st \in TradingStatuses : SetSymbolStatus(sym, st)


(***************************************************************************)
(* The market matcher with caps that bind.  No book of a few orders comes  *)
(* near 128 levels or 1,000,000 lots, so this specification scales the     *)
(* three members down to the size of its books (the members have no        *)
(* setter; the matching code reads them as it reads any value): a cap of   *)
(* 1 or 2 levels, of 1 or 2 lots and of 1 to 3 cents of notional, next to  *)
(* the caps the Shard is built with.  The book is made of Day limit        *)
(* orders and swept by market orders.                                      *)
(***************************************************************************)
ScaledCaps == [levels : 1..2, qty : 1..2, notional : 1..3] \cup {DefaultCaps}

InitMarketShard == InitWorker /\ caps \in ScaledCaps

NextMarket ==
    \/ \E sym \in symbols, s \in Sides, p \in Prices, q \in NewQtys :
          ProcessOrder(NewLimit(sym, s, "Day", FALSE, p, q))
    \/ \E sym \in symbols, s \in Sides, q \in NewQtys :
          ProcessOrder(NewMarket(sym, s, "IOC", q))
    \/ LoopTop

(***************************************************************************)
(* OrderRouter (order_router.cpp), MatchingEngine (matching_engine.cpp),   *)
(* IngressCoordinator (ingress_coordinator.hpp, ingress_coordinator.cpp).  *)
(*                                                                         *)
(* The rings between the threads are the RingBuffer of SpecRing; here a    *)
(* ring is the FIFO sequence of the Orders it holds, and tryEnqueue fails  *)
(* when that sequence has the ring's capacity.                             *)
(***************************************************************************)

\* faulty variant: the test x != 0 is dropped
isPowerOfTwoOrZero(x) == BitAnd(x, Sub64(x, 1)) = 0
\* isPowerOfTwo of matching_engine.cpp: x && ((x & (x - 1)) == 0)
isPowerOfTwo(x) == x # 0 /\ BitAnd(x, Sub64(x, 1)) = 0

\* IngressCoordinator::isPowerOfTwo: x && ((x & (x - 1)) == 0)
IngressIsPowerOfTwo(x) == x # 0 /\ BitAnd(x, Sub64(x, 1)) = 0

\* OrderRouter::shardOf of a router built with numShards_ = n
RouterShardOf(n, order) == IF n = 0 THEN 0 ELSE order.symbolId % n

\* MatchingEngine::shardCount
shardCount == IF meState = "constructed" THEN numShards ELSE 0

\* the values a remainder of a division by zero is taken to have
UndefinedRemainders == 0..3

\* faulty variant: the shard is taken from the order's id
shardOfById(order) ==
    IF shardCount = 0 THEN UndefinedRemainders ELSE {order.id % shardCount}
\* IngressCoordinator::shardOf: order.symbolId % engine_.shardCount().  The
\* remainder of a division by zero is undefined: where it does not trap (see
\* DivideByZeroTrap) it is any value.
shardOf(order) ==
    IF shardCount = 0 THEN UndefinedRemainders ELSE {order.symbolId % shardCount}

\* faulty variant: every shard is given to the first producer
producerOfShardFirst(shard) == 0
\* IngressCoordinator::producerOfShard
producerOfShard(shard) ==
    IF numProducers_ # 0 THEN shard % numProducers_ ELSE 0

\* the ringCapacity and mailboxCapacity handed to the constructors
Capacities == 0..3
\* the numProducers handed to the IngressCoordinator constructor
ProducerCounts == 0..2
\* the symbol ids of the orders the decoder submits
SymbolIds == 0..3

\* the Order the decoder submits for symbol sym
SubmittedOrder(sym) == [DefaultOrder EXCEPT !.symbolId = sym]

\* MatchingEngine::MatchingEngine(numShards, ringCapacity)
EngineCtor(n, cap) ==
    /\ ~crashed
    /\ meState = "none"
    /\ icState = "none"
    /\ numShards' = n
    /\ ringCapacity' = cap
    /\ IF ~isPowerOfTwo(cap)
       THEN \* throw std::invalid_argument
            /\ meState' = "threw"
            /\ inbox' = EmptyMap
       ELSE /\ meState' = "constructed"
            /\ inbox' = [i \in 0..(n - 1) |-> <<>>]
    /\ inboxWriters' = [i \in DOMAIN inbox' |-> {}]
    /\ UNCHANGED <<meRunning, enq, drop, icState, numProducers_, mailboxCapacity_,
                   icRunning, icJoining, mailbox, thr, thrEv, thrShard, crashed, submitted,
                   mailboxReaders>>
    /\ UNCHANGED <<ringVars, shardVars, engineVars,
                   outboundVars, raceVars, gatewayVars>>

\* IngressCoordinator::IngressCoordinator(engine, numProducers, mailboxCapacity)
CoordinatorCtor(k, cap) ==
    /\ ~crashed
    /\ meState = "constructed"
    /\ icState = "none"
    /\ numProducers_' = IF k # 0 THEN k ELSE 1
    /\ mailboxCapacity_' = cap
    /\ IF ~IngressIsPowerOfTwo(cap)
       THEN \* throw std::invalid_argument
            /\ icState' = "threw"
            /\ mailbox' = EmptyMap
       ELSE /\ icState' = "constructed"
            /\ mailbox' = [i \in 0..(numProducers_' - 1) |-> <<>>]
    /\ thr' = [i \in DOMAIN mailbox' |-> "none"]
    /\ thrEv' = [i \in DOMAIN mailbox' |-> DefaultOrder]
    /\ thrShard' = [i \in DOMAIN mailbox' |-> 0]
    /\ mailboxReaders' = [i \in DOMAIN mailbox' |-> {}]
    /\ UNCHANGED <<meState, numShards, ringCapacity, meRunning, enq, drop, inbox,
                   icRunning, icJoining, crashed, submitted, inboxWriters>>
    /\ UNCHANGED <<ringVars, shardVars, engineVars,
                   outboundVars, raceVars, gatewayVars>>

\* MatchingEngine::start
EngineStart ==
    /\ ~crashed
    /\ meState = "constructed"
    /\ ~meRunning
    /\ meRunning' = TRUE
    /\ enq' = 0
    /\ drop' = 0
    /\ UNCHANGED <<meState, numShards, ringCapacity, inbox, icState, numProducers_,
                   mailboxCapacity_, icRunning, icJoining, mailbox, thr, thrEv, thrShard,
                   crashed, submitted, inboxWriters, mailboxReaders>>
    /\ UNCHANGED <<ringVars, shardVars, engineVars,
                   outboundVars, raceVars, gatewayVars>>

\* MatchingEngine::shutdown
EngineShutdown ==
    /\ ~crashed
    /\ meState = "constructed"
    /\ meRunning
    /\ meRunning' = FALSE
    /\ UNCHANGED <<meState, numShards, ringCapacity, enq, drop, inbox, icState,
                   numProducers_, mailboxCapacity_, icRunning, icJoining, mailbox,
                   thr, thrEv, thrShard, crashed, submitted, inboxWriters,
                   mailboxReaders>>
    /\ UNCHANGED <<ringVars, shardVars, engineVars,
                   outboundVars, raceVars, gatewayVars>>

\* IngressCoordinator::start: one thread per producer, running producerLoop(i)
CoordinatorStart ==
    /\ ~crashed
    /\ icState = "constructed"
    /\ ~icRunning /\ ~icJoining
    /\ icRunning' = TRUE
    /\ thr' = [i \in DOMAIN thr |-> "top"]
    /\ UNCHANGED <<meState, numShards, ringCapacity, meRunning, enq, drop, inbox,
                   icState, numProducers_, mailboxCapacity_, icJoining, mailbox,
                   thrEv, thrShard, crashed, submitted, inboxWriters, mailboxReaders>>
    /\ UNCHANGED <<ringVars, shardVars, engineVars,
                   outboundVars, raceVars, gatewayVars>>

\* IngressCoordinator::stop, up to the joins
CoordinatorStop ==
    /\ ~crashed
    /\ icState = "constructed"
    /\ icRunning
    /\ icRunning' = FALSE
    /\ icJoining' = TRUE
    /\ UNCHANGED <<meState, numShards, ringCapacity, meRunning, enq, drop, inbox,
                   icState, numProducers_, mailboxCapacity_, mailbox, thr, thrEv, thrShard,
                   crashed, submitted, inboxWriters, mailboxReaders>>
    /\ UNCHANGED <<ringVars, shardVars, engineVars,
                   outboundVars, raceVars, gatewayVars>>

\* IngressCoordinator::stop returns: every producer thread was joined
CoordinatorJoined ==
    /\ ~crashed
    /\ icJoining
    /\ \A i \in DOMAIN thr : thr[i] = "exited"
    /\ icJoining' = FALSE
    /\ thr' = [i \in DOMAIN thr |-> "none"]
    /\ UNCHANGED <<meState, numShards, ringCapacity, meRunning, enq, drop, inbox,
                   icState, numProducers_, mailboxCapacity_, icRunning, mailbox,
                   thrEv, thrShard, crashed, submitted, inboxWriters, mailboxReaders>>
    /\ UNCHANGED <<ringVars, shardVars, engineVars,
                   outboundVars, raceVars, gatewayVars>>

\* the division by zero of IngressCoordinator::shardOf traps
DivideByZeroTrap ==
    /\ ~crashed
    /\ icState = "constructed"
    /\ shardCount = 0
    /\ \/ submitted < MaxSubmit
       \/ \E i \in DOMAIN thr : thr[i] = "top" /\ icRunning /\ mailbox[i] # <<>>
    /\ crashed' = TRUE
    /\ UNCHANGED <<meState, numShards, ringCapacity, meRunning, enq, drop, inbox,
                   icState, numProducers_, mailboxCapacity_, icRunning, icJoining,
                   mailbox, thr, thrEv, thrShard, submitted, inboxWriters,
                   mailboxReaders>>
    /\ UNCHANGED <<ringVars, shardVars, engineVars,
                   outboundVars, raceVars, gatewayVars>>

\* IngressCoordinator::submitFromDecoder(order) returns: the spin on
\* w.tryEnqueue ended, the order is in the mailbox of producer prodIdx (what
\* the call does to the coordinator and leaves alone beside it; the caller's
\* own state is the caller's)
MailboxEnqueue(order) ==
    /\ ~crashed
    /\ icState = "constructed"
    /\ submitted < MaxSubmit
    /\ \E shard \in shardOf(order) :
          LET prodIdx == producerOfShard(shard) IN
          /\ Len(mailbox[prodIdx]) < mailboxCapacity_
          /\ mailbox' = [mailbox EXCEPT ![prodIdx] = Append(@, order)]
    /\ submitted' = submitted + 1
    /\ UNCHANGED <<meState, numShards, ringCapacity, meRunning, enq, drop, inbox,
                   icState, numProducers_, mailboxCapacity_, icRunning, icJoining,
                   thr, thrEv, thrShard, crashed, inboxWriters, mailboxReaders>>
    /\ UNCHANGED <<ringVars, shardVars, engineVars, outboundVars, raceVars>>

\* IngressCoordinator::submitFromDecoder(order), called by the decoder
submitFromDecoder(order) ==
    /\ MailboxEnqueue(order)
    /\ UNCHANGED gatewayVars

\* producerLoop(idx): running_ is true, p.reader.tryDequeue(ev) succeeds and
\* shard = shardOf(ev)
ProducerDequeue(idx) ==
    /\ ~crashed
    /\ thr[idx] = "top"
    /\ icRunning
    /\ mailbox[idx] # <<>>
    /\ thrEv' = [thrEv EXCEPT ![idx] = Head(mailbox[idx])]
    /\ mailbox' = [mailbox EXCEPT ![idx] = Tail(@)]
    /\ mailboxReaders' = [mailboxReaders EXCEPT ![idx] = @ \cup {idx}]
    /\ \E shard \in shardOf(Head(mailbox[idx])) :
          thrShard' = [thrShard EXCEPT ![idx] = shard]
    /\ thr' = [thr EXCEPT ![idx] = "spin"]
    /\ UNCHANGED <<meState, numShards, ringCapacity, meRunning, enq, drop, inbox,
                   icState, numProducers_, mailboxCapacity_, icRunning, icJoining,
                   crashed, submitted, inboxWriters>>
    /\ UNCHANGED <<ringVars, shardVars, engineVars,
                   outboundVars, raceVars, gatewayVars>>

\* producerLoop(idx): running_ is false, the thread leaves the loop
ProducerExit(idx) ==
    /\ ~crashed
    /\ thr[idx] = "top"
    /\ ~icRunning
    /\ thr' = [thr EXCEPT ![idx] = "exited"]
    /\ UNCHANGED <<meState, numShards, ringCapacity, meRunning, enq, drop, inbox,
                   icState, numProducers_, mailboxCapacity_, icRunning, icJoining,
                   mailbox, thrEv, thrShard, crashed, submitted, inboxWriters,
                   mailboxReaders>>
    /\ UNCHANGED <<ringVars, shardVars, engineVars,
                   outboundVars, raceVars, gatewayVars>>

\* faulty variant: the producer gives the order up when the inbox is full
ProducerForwardDrops(idx) ==
    /\ ~crashed
    /\ thr[idx] = "spin"
    /\ LET shard == thrShard[idx] IN
          IF ~meRunning
          THEN \* enqueueToShard: drop.fetch_add(1); return false
               /\ drop < MaxDrop
               /\ drop' = drop + 1
               /\ UNCHANGED <<enq, inbox, thr, thrEv, thrShard, crashed, inboxWriters>>
          ELSE IF shard \notin DOMAIN inbox
          THEN \* shards.at(shardIdx) throws std::out_of_range in the thread
               /\ crashed' = TRUE
               /\ UNCHANGED <<enq, drop, inbox, thr, thrEv, thrShard, inboxWriters>>
          ELSE IF Len(inbox[shard]) < ringCapacity
          THEN \* writer.tryEnqueue(order) succeeded; back at the top of the
               \* loop ev and shard are dead, the model resets them
               /\ inbox' = [inbox EXCEPT ![shard] = Append(@, thrEv[idx])]
               /\ inboxWriters' = [inboxWriters EXCEPT ![shard] = @ \cup {idx}]
               /\ enq' = enq + 1
               /\ thr' = [thr EXCEPT ![idx] = "top"]
               /\ thrEv' = [thrEv EXCEPT ![idx] = DefaultOrder]
               /\ thrShard' = [thrShard EXCEPT ![idx] = 0]
               /\ UNCHANGED <<drop, crashed>>
          ELSE \* the inbox is full: the order is counted as dropped and let go
               /\ drop < MaxDrop
               /\ drop' = drop + 1
               /\ thr' = [thr EXCEPT ![idx] = "top"]
               /\ thrEv' = [thrEv EXCEPT ![idx] = DefaultOrder]
               /\ thrShard' = [thrShard EXCEPT ![idx] = 0]
               /\ UNCHANGED <<enq, inbox, crashed, inboxWriters>>
    /\ UNCHANGED <<meState, numShards, ringCapacity, meRunning, icState,
                   numProducers_, mailboxCapacity_, icRunning, icJoining, mailbox,
                   submitted, mailboxReaders>>
    /\ UNCHANGED <<ringVars, shardVars, engineVars,
                   outboundVars, raceVars, gatewayVars>>

\* producerLoop(idx): one call engine_.enqueueToShard(shard, ev) of the
\* inner spin, which does not look at running_
ProducerForward(idx) ==
    /\ ~crashed
    /\ thr[idx] = "spin"
    /\ LET shard == thrShard[idx] IN
          IF ~meRunning
          THEN \* enqueueToShard: drop.fetch_add(1); return false
               /\ drop < MaxDrop
               /\ drop' = drop + 1
               /\ UNCHANGED <<enq, inbox, thr, thrEv, thrShard, crashed, inboxWriters>>
          ELSE IF shard \notin DOMAIN inbox
          THEN \* shards.at(shardIdx) throws std::out_of_range in the thread
               /\ crashed' = TRUE
               /\ UNCHANGED <<enq, drop, inbox, thr, thrEv, thrShard, inboxWriters>>
          ELSE IF Len(inbox[shard]) < ringCapacity
          THEN \* writer.tryEnqueue(order) succeeded; back at the top of the
               \* loop ev and shard are dead, the model resets them
               /\ inbox' = [inbox EXCEPT ![shard] = Append(@, thrEv[idx])]
               /\ inboxWriters' = [inboxWriters EXCEPT ![shard] = @ \cup {idx}]
               /\ enq' = enq + 1
               /\ thr' = [thr EXCEPT ![idx] = "top"]
               /\ thrEv' = [thrEv EXCEPT ![idx] = DefaultOrder]
               /\ thrShard' = [thrShard EXCEPT ![idx] = 0]
               /\ UNCHANGED <<drop, crashed>>
          ELSE \* the inbox is full: drop.fetch_add(1); return false
               /\ drop < MaxDrop
               /\ drop' = drop + 1
               /\ UNCHANGED <<enq, inbox, thr, thrEv, thrShard, crashed, inboxWriters>>
    /\ UNCHANGED <<meState, numShards, ringCapacity, meRunning, icState,
                   numProducers_, mailboxCapacity_, icRunning, icJoining, mailbox,
                   submitted, mailboxReaders>>
    /\ UNCHANGED <<ringVars, shardVars, engineVars,
                   outboundVars, raceVars, gatewayVars>>

\* Shard::runLoop of shard sh: reader_.tryDequeue(ev) succeeds (what the
\* worker does with ev is SpecShard)
ShardDequeue(sh) ==
    /\ ~crashed
    /\ meRunning
    /\ inbox[sh] # <<>>
    /\ inbox' = [inbox EXCEPT ![sh] = Tail(@)]
    /\ UNCHANGED <<meState, numShards, ringCapacity, meRunning, enq, drop, icState,
                   numProducers_, mailboxCapacity_, icRunning, icJoining, mailbox,
                   thr, thrEv, thrShard, crashed, submitted, inboxWriters,
                   mailboxReaders>>
    /\ UNCHANGED <<ringVars, shardVars, engineVars,
                   outboundVars, raceVars, gatewayVars>>

InitIngress ==
    /\ meState = "none" /\ numShards = 0 /\ ringCapacity = 0
    /\ meRunning = FALSE /\ enq = 0 /\ drop = 0
    /\ inbox = EmptyMap
    /\ icState = "none" /\ numProducers_ = 0 /\ mailboxCapacity_ = 0
    /\ icRunning = FALSE /\ icJoining = FALSE
    /\ mailbox = EmptyMap /\ thr = EmptyMap /\ thrEv = EmptyMap /\ thrShard = EmptyMap
    /\ crashed = FALSE
    /\ submitted = 0
    /\ inboxWriters = EmptyMap
    /\ mailboxReaders = EmptyMap

NextIngress ==
    \/ \E n \in 0..MaxShards, cap \in Capacities : EngineCtor(n, cap)
    \/ \E k \in ProducerCounts, cap \in Capacities : CoordinatorCtor(k, cap)
    \/ EngineStart
    \/ EngineShutdown
    \/ CoordinatorStart
    \/ CoordinatorStop
    \/ CoordinatorJoined
    \/ DivideByZeroTrap
    \/ \E sym \in SymbolIds : submitFromDecoder(SubmittedOrder(sym))
    \/ \E idx \in DOMAIN thr : ProducerDequeue(idx)
    \/ \E idx \in DOMAIN thr : ProducerExit(idx)
    \/ \E idx \in DOMAIN thr : ProducerForward(idx)
    \/ \E sh \in DOMAIN inbox : ShardDequeue(sh)


(***************************************************************************)
(* The ingress path under fair scheduling.  The engine has at least one    *)
(* shard and both constructors are given capacities they accept, so that   *)
(* every order has a shard; the threads are those of SpecIngress.          *)
(***************************************************************************)
\* the ring and mailbox capacities of the running system
LiveCapacities == {c \in Capacities : isPowerOfTwo(c)}

\* the symbols of the orders fed to the running system: with two or more
\* shards they go to different shards, with two producers to different
\* mailboxes
LiveSymbols == 0..1

\* one step of the producer thread idx (producerLoop)
ProducerStep(idx) ==
    /\ idx \in DOMAIN thr
    /\ (ProducerDequeue(idx) \/ ProducerExit(idx) \/ ProducerForward(idx))

\* one step of the worker thread of shard sh (Shard::runLoop)
WorkerStep(sh) ==
    /\ sh \in DOMAIN inbox
    /\ ShardDequeue(sh)

\* the producer threads and the shard workers are scheduled fairly: a thread
\* that can take a step is not passed over for ever
FairThreads ==
    /\ \A idx \in ProducerCounts : WF_vars(ProducerStep(idx))
    /\ \A sh \in 0..(MaxShards - 1) : WF_vars(WorkerStep(sh))

NextIngressLive ==
    \/ \E n \in 1..MaxShards, cap \in LiveCapacities : EngineCtor(n, cap)
    \/ \E k \in ProducerCounts, cap \in LiveCapacities : CoordinatorCtor(k, cap)
    \/ EngineStart
    \/ EngineShutdown
    \/ CoordinatorStart
    \/ CoordinatorStop
    \/ CoordinatorJoined
    \/ \E sym \in LiveSymbols : submitFromDecoder(SubmittedOrder(sym))
    \/ \E idx \in DOMAIN thr : ProducerDequeue(idx)
    \/ \E idx \in DOMAIN thr : ProducerExit(idx)
    \/ \E idx \in DOMAIN thr : ProducerForward(idx)
    \/ \E sh \in DOMAIN inbox : ShardDequeue(sh)

\* the call of the inner spin of producer idx that gets its order into the
\* inbox
ProducerForwarded(idx) ==
    /\ idx \in DOMAIN thr
    /\ ProducerForward(idx)
    /\ thr'[idx] = "top"

\* The thread inside IngressCoordinator::stop is scheduled fairly too: once
\* every producer thread has exited, the joins return.  And a producer that
\* spins retries without pause: if its enqueueToShard can succeed again and
\* again, one of its calls does.
FairStop ==
    /\ FairThreads
    /\ WF_vars(CoordinatorJoined)
    /\ \A idx \in ProducerCounts : SF_vars(ProducerForwarded(idx))

(***************************************************************************)
(* The ingress path with numbered orders.  The decoder thread numbers the  *)
(* orders it submits 1, 2, ... in the order of its calls, so that an order *)
(* can be followed from submitFromDecoder through its mailbox and its      *)
(* producer thread to the inbox of its shard.                              *)
(***************************************************************************)
\* the symbols of the numbered orders: with two shards 0 and 2 share a shard,
\* with three shards no two of them do
OrderedSymbols == 0..2

\* the next Order the decoder submits for symbol sym
NumberedOrder(sym) == [SubmittedOrder(sym) EXCEPT !.id = submitted + 1]

NextOrdering ==
    \/ \E n \in 0..MaxShards, cap \in Capacities : EngineCtor(n, cap)
    \/ \E k \in ProducerCounts, cap \in Capacities : CoordinatorCtor(k, cap)
    \/ EngineStart
    \/ EngineShutdown
    \/ CoordinatorStart
    \/ CoordinatorStop
    \/ CoordinatorJoined
    \/ DivideByZeroTrap
    \/ \E sym \in OrderedSymbols : submitFromDecoder(NumberedOrder(sym))
    \/ \E idx \in DOMAIN thr : ProducerDequeue(idx)
    \/ \E idx \in DOMAIN thr : ProducerExit(idx)
    \/ \E idx \in DOMAIN thr : ProducerForward(idx)
    \/ \E sh \in DOMAIN inbox : ShardDequeue(sh)
(***************************************************************************)
(* MatchingEngine with its Shards (matching_engine.cpp, shard.cpp): the    *)
(* thread that calls start() and shutdown(), the thread that calls         *)
(* submit() and enqueueToShard(), and one worker thread per Shard.         *)
(*                                                                         *)
(* Every numbered statement of start(), shutdown(), submit() and runLoop   *)
(* that reads or writes a shared atomic is a step of its own.  The books   *)
(* of all Shards are kept in books_ by symbol id: the router gives a       *)
(* symbol to one Shard only.                                               *)
(***************************************************************************)

\* the numShards handed to the MatchingEngine constructor
EngineShardCounts == 0..2
\* the symbol ids of the orders handed to submit() and enqueueToShard()
EngineSymbols == 0..1

\* the Order handed to submit() / enqueueToShard(): a Day limit order of one
\* lot at price 1, with the next id of the caller's sequence
EngineOrder(sym, s) ==
    [DefaultOrder EXCEPT !.id = submitted + 1, !.symbolId = sym, !.side = s,
                         !.priceCents = 1, !.qty = 1]

\* position of the worker thread of shard sh: "none" (no thread, or joined),
\* "top" (at the loop condition), "body" (inside the loop), "exited"
WorkerOf(sh) == IF sh \in DOMAIN worker_ THEN worker_[sh] ELSE "none"
\* tradeIdGen_ of shard sh
TradeIdGenOf(sh) == IF sh \in DOMAIN shardTradeIdGen THEN shardTradeIdGen[sh] ELSE 0
OwedOf(sh) == IF sh \in DOMAIN owed THEN owed[sh] ELSE 0

\* the call is over: the caller may make the next one
CallReturned == callPc \in {"new", "true", "false", "threw"}

\* MatchingEngine::submit up to the load of running:
\*   if (!impl_ || impl_->shards.empty()) return false;
\*   if (!impl_->running.load()) { drop.fetch_add(1) ...
\*   shardIdx = impl_->router.shardOf(order)
Submit(order) ==
    /\ meState = "constructed"
    /\ CallReturned
    /\ submitted < MaxSubmit
    /\ submitted' = submitted + 1
    /\ IF numShards = 0
       THEN callPc' = "false" /\ UNCHANGED <<callOrder, callShard>>
       ELSE IF ~meRunning
       THEN callPc' = "countDrop" /\ UNCHANGED <<callOrder, callShard>>
       ELSE /\ callPc' = "enqueue"
            /\ callOrder' = order
            /\ callShard' = RouterShardOf(numShards, order)
    /\ UNCHANGED <<running_, worker_, shardTradeIdGen, owed, ctl>>
    /\ UNCHANGED <<meState, numShards, ringCapacity, meRunning, enq, drop, inbox,
                   icState, numProducers_, mailboxCapacity_, icRunning, icJoining,
                   mailbox, thr, thrEv, thrShard, crashed, inboxWriters, mailboxReaders>>
    /\ UNCHANGED <<ringVars, shardVars, outboundVars, raceVars, gatewayVars>>

\* MatchingEngine::enqueueToShard up to impl_->shards.at(shardIdx):
\*   if (!impl_ || !impl_->running.load()) { drop.fetch_add(1) ...
\*   auto& writer = impl_->shards.at(shardIdx)->writer();   (may throw)
\* The caller hands a shard its own symbols, as IngressCoordinator does.
EnqueueToShard(shardIdx, order) ==
    /\ meState = "constructed"
    /\ CallReturned
    /\ submitted < MaxSubmit
    /\ shardIdx < numShards => shardIdx = RouterShardOf(numShards, order)
    /\ submitted' = submitted + 1
    /\ IF ~meRunning
       THEN callPc' = "countDrop" /\ UNCHANGED <<callOrder, callShard>>
       ELSE IF shardIdx >= numShards
       THEN \* std::out_of_range
            callPc' = "threw" /\ UNCHANGED <<callOrder, callShard>>
       ELSE /\ callPc' = "enqueue"
            /\ callOrder' = order
            /\ callShard' = shardIdx
    /\ UNCHANGED <<running_, worker_, shardTradeIdGen, owed, ctl>>
    /\ UNCHANGED <<meState, numShards, ringCapacity, meRunning, enq, drop, inbox,
                   icState, numProducers_, mailboxCapacity_, icRunning, icJoining,
                   mailbox, thr, thrEv, thrShard, crashed, inboxWriters, mailboxReaders>>
    /\ UNCHANGED <<ringVars, shardVars, outboundVars, raceVars, gatewayVars>>

\* writer.tryEnqueue(order) of submit / enqueueToShard
CallTryEnqueue ==
    /\ callPc = "enqueue"
    /\ IF Len(inbox[callShard]) < ringCapacity
       THEN /\ inbox' = [inbox EXCEPT ![callShard] = Append(@, callOrder)]
            /\ callPc' = "countEnq"
       ELSE /\ callPc' = "countDrop"
            /\ UNCHANGED inbox
    /\ callOrder' = DefaultOrder
    /\ callShard' = 0
    /\ UNCHANGED <<running_, worker_, shardTradeIdGen, owed, ctl>>
    /\ UNCHANGED <<meState, numShards, ringCapacity, meRunning, enq, drop,
                   icState, numProducers_, mailboxCapacity_, icRunning, icJoining,
                   mailbox, thr, thrEv, thrShard, crashed, submitted, inboxWriters,
                   mailboxReaders>>
    /\ UNCHANGED <<ringVars, shardVars, outboundVars, raceVars, gatewayVars>>

\* impl_->enq.fetch_add(1); return true;
CallCountEnq ==
    /\ callPc = "countEnq"
    /\ enq' = enq + 1
    /\ callPc' = "true"
    /\ UNCHANGED <<running_, worker_, shardTradeIdGen, owed, ctl, callOrder, callShard>>
    /\ UNCHANGED <<meState, numShards, ringCapacity, meRunning, drop, inbox,
                   icState, numProducers_, mailboxCapacity_, icRunning, icJoining,
                   mailbox, thr, thrEv, thrShard, crashed, submitted, inboxWriters,
                   mailboxReaders>>
    /\ UNCHANGED <<ringVars, shardVars, outboundVars, raceVars, gatewayVars>>

\* impl_->drop.fetch_add(1); return false;
CallCountDrop ==
    /\ callPc = "countDrop"
    /\ drop' = drop + 1
    /\ callPc' = "false"
    /\ UNCHANGED <<running_, worker_, shardTradeIdGen, owed, ctl, callOrder, callShard>>
    /\ UNCHANGED <<meState, numShards, ringCapacity, meRunning, enq, inbox,
                   icState, numProducers_, mailboxCapacity_, icRunning, icJoining,
                   mailbox, thr, thrEv, thrShard, crashed, submitted, inboxWriters,
                   mailboxReaders>>
    /\ UNCHANGED <<ringVars, shardVars, outboundVars, raceVars, gatewayVars>>

\* what the steps of the control thread leave alone
ControlFrame ==
    /\ UNCHANGED <<shardTradeIdGen, callPc, callOrder, callShard>>
    /\ UNCHANGED <<meState, numShards, ringCapacity, inbox,
                   icState, numProducers_, mailboxCapacity_, icRunning, icJoining,
                   mailbox, thr, thrEv, thrShard, crashed, submitted, inboxWriters,
                   mailboxReaders>>
    /\ UNCHANGED <<books_, status_, caps, tradeIdGen_, wPc, ev, evIn, emitT, emitE,
                   nextId, symbols>>
    /\ UNCHANGED <<ringVars, outboundVars, raceVars, gatewayVars>>

\* MatchingEngine::start: running.compare_exchange_strong(false, true)
StartCas ==
    /\ meState = "constructed"
    /\ ctl.pc = "idle"
    /\ ~meRunning
    /\ meRunning' = TRUE
    /\ ctl' = [pc |-> "startShards", i |-> 0]
    /\ UNCHANGED <<running_, worker_, owed, enq, drop, procCount, tradesCount>>
    /\ ControlFrame

\* MatchingEngine::start on a running engine: the compare_exchange fails and
\* the call returns
StartOnRunning ==
    /\ meState = "constructed"
    /\ ctl.pc = "idle"
    /\ meRunning
    /\ UNCHANGED vars

\* for (auto& shard : impl_->shards) shard->start();
\* Shard::start: running_.compare_exchange_strong(false, true), then
\* worker_ = std::thread(runLoop)
StartShard ==
    /\ ctl.pc = "startShards"
    /\ IF ctl.i < numShards
       THEN /\ IF ctl.i \notin running_
               THEN /\ running_' = running_ \cup {ctl.i}
                    /\ worker_' = MapPut(worker_, ctl.i, "top")
               ELSE UNCHANGED <<running_, worker_>>
            /\ ctl' = [ctl EXCEPT !.i = ctl.i + 1]
       ELSE /\ ctl' = [pc |-> "resetEnq", i |-> 0]
            /\ UNCHANGED <<running_, worker_>>
    /\ UNCHANGED <<meRunning, owed, enq, drop, procCount, tradesCount>>
    /\ ControlFrame

\* "reset metrics": impl_->enq.store(0)
ResetEnq ==
    /\ ctl.pc = "resetEnq"
    /\ enq' = 0
    /\ ctl' = [ctl EXCEPT !.pc = "resetDrop"]
    /\ UNCHANGED <<meRunning, running_, worker_, owed, drop, procCount, tradesCount>>
    /\ ControlFrame

\* impl_->drop.store(0)
ResetDrop ==
    /\ ctl.pc = "resetDrop"
    /\ drop' = 0
    /\ ctl' = [ctl EXCEPT !.pc = "resetProc"]
    /\ UNCHANGED <<meRunning, running_, worker_, owed, enq, procCount, tradesCount>>
    /\ ControlFrame

\* impl_->proc.store(0)
ResetProc ==
    /\ ctl.pc = "resetProc"
    /\ procCount' = 0
    /\ ctl' = [ctl EXCEPT !.pc = "resetTrades"]
    /\ UNCHANGED <<meRunning, running_, worker_, owed, enq, drop, tradesCount>>
    /\ ControlFrame

\* impl_->trades.store(0); the warm-up reads no shared state, and every
\* shard reports isRunning() since its start() returned: start() returns
ResetTrades ==
    /\ ctl.pc = "resetTrades"
    /\ tradesCount' = 0
    /\ ctl' = [ctl EXCEPT !.pc = "idle"]
    /\ UNCHANGED <<meRunning, running_, worker_, owed, enq, drop, procCount>>
    /\ ControlFrame

\* MatchingEngine::shutdown: running.compare_exchange_strong(true, false)
ShutdownCas ==
    /\ meState = "constructed"
    /\ ctl.pc = "idle"
    /\ meRunning
    /\ meRunning' = FALSE
    /\ ctl' = [pc |-> "stopShards", i |-> 0]
    /\ UNCHANGED <<running_, worker_, owed, enq, drop, procCount, tradesCount>>
    /\ ControlFrame

\* MatchingEngine::shutdown on a stopped engine: the compare_exchange fails
\* and the call returns ("already stopped")
ShutdownOnStopped ==
    /\ meState = "constructed"
    /\ ctl.pc = "idle"
    /\ ~meRunning
    /\ UNCHANGED vars

\* for (auto& shard : impl_->shards) shard->stop();
\* Shard::stop: running_.compare_exchange_strong(true, false)
StopShard ==
    /\ ctl.pc = "stopShards"
    /\ IF ctl.i < numShards
       THEN IF ctl.i \in running_
            THEN /\ running_' = running_ \ {ctl.i}
                 /\ owed' = MapPut(owed, ctl.i, Len(inbox[ctl.i]))
                 /\ ctl' = [ctl EXCEPT !.pc = "join"]
            ELSE /\ ctl' = [ctl EXCEPT !.i = ctl.i + 1]
                 /\ UNCHANGED <<running_, owed>>
       ELSE /\ ctl' = [pc |-> "idle", i |-> 0]
            /\ UNCHANGED <<running_, owed>>
    /\ UNCHANGED <<meRunning, worker_, enq, drop, procCount, tradesCount>>
    /\ ControlFrame

\* faulty variant: stop() goes on without waiting for the worker to exit
JoinWorkerSkips ==
    /\ ctl.pc = "join"
    /\ ctl' = [pc |-> "stopShards", i |-> ctl.i + 1]
    /\ UNCHANGED <<meRunning, running_, worker_, owed, enq, drop, procCount, tradesCount>>
    /\ ControlFrame
\* Shard::stop: if (worker_.joinable()) worker_.join();
JoinWorker ==
    /\ ctl.pc = "join"
    /\ WorkerOf(ctl.i) = "exited"
    /\ worker_' = MapPut(worker_, ctl.i, "none")
    /\ ctl' = [pc |-> "stopShards", i |-> ctl.i + 1]
    /\ UNCHANGED <<meRunning, running_, owed, enq, drop, procCount, tradesCount>>
    /\ ControlFrame

\* what the steps of a worker that touch no order leave alone
WorkerFrame ==
    /\ UNCHANGED <<running_, shardTradeIdGen, owed, ctl, callPc, callOrder, callShard>>
    /\ UNCHANGED ingressVars
    /\ UNCHANGED <<ringVars, shardVars, outboundVars, raceVars, gatewayVars>>

\* Shard::runLoop: while (running_.load(std::memory_order_acquire))
LoopCondition(sh) == sh \in running_

\* The worker of shard sh evaluates the loop condition.  An iteration that
\* finds the flag set and the inbox empty (tryDequeue fails, pause, yield)
\* changes nothing, and only the worker itself takes orders out of its inbox:
\* the worker is at the top of the loop until the flag is cleared or there
\* is an order to dequeue.
WorkerTest(sh) ==
    /\ WorkerOf(sh) = "top"
    /\ ~LoopCondition(sh) \/ inbox[sh] # <<>>
    /\ worker_' = MapPut(worker_, sh, IF LoopCondition(sh) THEN "body" ELSE "exited")
    /\ WorkerFrame

\* the body of the loop when reader_.tryDequeue(ev) delivers an order: the
\* gate, the dispatch, the trades counter and the processed counter
WorkerProcess(sh) ==
    /\ WorkerOf(sh) = "body"
    /\ inbox[sh] # <<>>
    /\ LET o == Head(inbox[sh])
           x == Gate([order |-> o, bk |-> BookOf(o.symbolId), tid |-> TradeIdGenOf(sh),
                      tc |-> tradesCount, tr |-> <<>>, evs |-> <<>>])
       IN  /\ books_' = MapPut(books_, o.symbolId, x.bk)
           /\ shardTradeIdGen' = MapPut(shardTradeIdGen, sh, x.tid)
           /\ tradesCount' = x.tc
    /\ inbox' = [inbox EXCEPT ![sh] = Tail(@)]
    /\ owed' = IF OwedOf(sh) > 0 THEN MapPut(owed, sh, OwedOf(sh) - 1) ELSE owed
    /\ procCount' = procCount + 1
    /\ worker_' = MapPut(worker_, sh, "top")
    /\ UNCHANGED <<running_, ctl, callPc, callOrder, callShard>>
    /\ UNCHANGED <<meState, numShards, ringCapacity, meRunning, enq, drop,
                   icState, numProducers_, mailboxCapacity_, icRunning, icJoining,
                   mailbox, thr, thrEv, thrShard, crashed, submitted, inboxWriters,
                   mailboxReaders>>
    /\ UNCHANGED <<status_, caps, tradeIdGen_, wPc, ev, evIn, emitT, emitE, nextId, symbols>>
    /\ UNCHANGED <<ringVars, outboundVars, raceVars, gatewayVars>>

InitEngine ==
    /\ running_ = {}
    /\ worker_ = EmptyMap
    /\ shardTradeIdGen = EmptyMap
    /\ owed = EmptyMap
    /\ ctl = [pc |-> "idle", i |-> 0]
    /\ callPc = "new"
    /\ callOrder = DefaultOrder
    /\ callShard = 0

NextEngine ==
    \/ \E n \in EngineShardCounts, cap \in Capacities : EngineCtor(n, cap)
    \/ \E sym \in EngineSymbols, s \in Sides : Submit(EngineOrder(sym, s))
    \/ \E shardIdx \in 0..numShards, sym \in EngineSymbols, s \in Sides :
          EnqueueToShard(shardIdx, EngineOrder(sym, s))
    \/ CallTryEnqueue
    \/ CallCountEnq
    \/ CallCountDrop
    \/ StartCas
    \/ StartOnRunning
    \/ StartShard
    \/ ResetEnq
    \/ ResetDrop
    \/ ResetProc
    \/ ResetTrades
    \/ ShutdownCas
    \/ ShutdownOnStopped
    \/ StopShard
    \/ JoinWorker
    \/ \E sh \in DOMAIN inbox : WorkerTest(sh)
    \/ \E sh \in DOMAIN inbox : WorkerProcess(sh)


\* The engine with its control thread and its workers, fed through submit()
\* with buy orders only: what the orders are does not matter to starting and
\* stopping.
NextLifecycle ==
    \/ \E n \in EngineShardCounts, cap \in Capacities : EngineCtor(n, cap)
    \/ \E sym \in EngineSymbols : Submit(EngineOrder(sym, "BUY"))
    \/ CallTryEnqueue
    \/ CallCountEnq
    \/ CallCountDrop
    \/ StartCas
    \/ StartOnRunning
    \/ StartShard
    \/ ResetEnq
    \/ ResetDrop
    \/ ResetProc
    \/ ResetTrades
    \/ ShutdownCas
    \/ ShutdownOnStopped
    \/ StopShard
    \/ JoinWorker
    \/ \E sh \in DOMAIN inbox : WorkerTest(sh)
    \/ \E sh \in DOMAIN inbox : WorkerProcess(sh)
(***************************************************************************)
(* The outbound side of a Shard (shard.hpp:81-87): the worker hands every  *)
(* Trade to tradeWriter_.tryEnqueue and every Event to                     *)
(* eventWriter_.tryEnqueue while it processes an order, and drops what a    *)
(* full ring refuses; one consumer thread per ring dequeues.  A ring is    *)
(* the FIFO sequence of its records (SpecRing), and each record carries    *)
(* the number of the order it was produced for: k for the k-th order the   *)
(* worker dequeued.                                                        *)
(***************************************************************************)

\* the ringCapacity handed to the Shard constructor where it is not varied
OutboundCapacity == 2

\* faulty variant: the record is put in front of the records in the ring
RingPushFront(ring, rec) ==
    IF Len(ring) < outCapacity THEN <<rec>> \o ring ELSE ring
\* (void)tradeWriter_.tryEnqueue(tr), (void)eventWriter_.tryEnqueue(e): the
\* record is appended, or dropped when the ring is full
RingPush(ring, rec) ==
    IF Len(ring) < outCapacity THEN Append(ring, rec) ELSE ring

\* Each fill hands its Trade to the trade ring and then its Exec to the event
\* ring; a Reject has no Trade.  Of the records of the order still to be
\* handed over, the next one is a Trade when as many Trades as Events are
\* left.
NextIsTrade == emitT # <<>> /\ Len(emitT) >= Len(emitE)

\* faulty variant: the worker waits until the trade ring has room
EmitTradeWaits ==
    /\ wPc = "done"
    /\ NextIsTrade
    /\ Len(tradeRing) < outCapacity
    /\ tradeRing' = RingPush(tradeRing, [k |-> procCount, rec |-> Head(emitT)])
    /\ emitT' = Tail(emitT)
    /\ UNCHANGED <<eventRing, outCapacity, lastTrade, lastEvent, lastTradeId, droppedTradeIds>>
    /\ UNCHANGED <<books_, status_, caps, tradeIdGen_, procCount, tradesCount, wPc, ev, evIn,
                   emitE, nextId, symbols>>
    /\ UNCHANGED <<ringVars, ingressVars, engineVars, raceVars, gatewayVars>>
\* (void)tradeWriter_.tryEnqueue(std::move(tr))
EmitTrade ==
    /\ wPc = "done"
    /\ NextIsTrade
    /\ tradeRing' = RingPush(tradeRing, [k |-> procCount, rec |-> Head(emitT)])
    /\ emitT' = Tail(emitT)
    /\ droppedTradeIds' = IF Len(tradeRing) < outCapacity THEN droppedTradeIds
                          ELSE droppedTradeIds \cup {Head(emitT).tradeId}
    /\ UNCHANGED <<eventRing, outCapacity, lastTrade, lastEvent, lastTradeId>>
    /\ UNCHANGED <<books_, status_, caps, tradeIdGen_, procCount, tradesCount, wPc, ev, evIn,
                   emitE, nextId, symbols>>
    /\ UNCHANGED <<ringVars, ingressVars, engineVars, raceVars, gatewayVars>>

\* emitExec / emitReject: (void)eventWriter_.tryEnqueue(std::move(ex))
EmitEvent ==
    /\ wPc = "done"
    /\ ~NextIsTrade
    /\ emitE # <<>>
    /\ eventRing' = RingPush(eventRing, [k |-> procCount, rec |-> Head(emitE)])
    /\ emitE' = Tail(emitE)
    /\ UNCHANGED <<tradeRing, outCapacity, lastTrade, lastEvent, lastTradeId, droppedTradeIds>>
    /\ UNCHANGED <<books_, status_, caps, tradeIdGen_, procCount, tradesCount, wPc, ev, evIn,
                   emitT, nextId, symbols>>
    /\ UNCHANGED <<ringVars, ingressVars, engineVars, raceVars, gatewayVars>>

\* the worker is back at the top of the loop once every record of the order
\* has been handed over
DrainedLoopTop ==
    /\ emitT = <<>> /\ emitE = <<>>
    /\ LoopTop

\* tradeReader_.tryDequeue(tr) of the consumer of the trade ring
ConsumeTrade ==
    /\ tradeRing # <<>>
    /\ lastTrade' = Head(tradeRing).k
    /\ lastTradeId' = Head(tradeRing).rec.tradeId
    /\ tradeRing' = Tail(tradeRing)
    /\ UNCHANGED <<eventRing, outCapacity, lastEvent, droppedTradeIds>>
    /\ UNCHANGED <<ringVars, shardVars, ingressVars, engineVars, raceVars, gatewayVars>>

\* eventReader_.tryDequeue(e) of the consumer of the event ring
ConsumeEvent ==
    /\ eventRing # <<>>
    /\ lastEvent' = Head(eventRing).k
    /\ eventRing' = Tail(eventRing)
    /\ UNCHANGED <<tradeRing, outCapacity, lastTrade, lastTradeId, droppedTradeIds>>
    /\ UNCHANGED <<ringVars, shardVars, ingressVars, engineVars, raceVars, gatewayVars>>

\* time in force of the limit orders fed to the shard here: Day orders that
\* rest or trade, FOK orders that trade or are rejected
OutboundTIFs == {"Day", "FOK"}

\* the rings and their consumers but for the capacity
InitRings ==
    /\ tradeRing = <<>> /\ eventRing = <<>>
    /\ lastTrade = 0 /\ lastEvent = 0
    /\ lastTradeId = 0 /\ droppedTradeIds = {}

InitOutbound == InitRings /\ outCapacity = OutboundCapacity

\* the capacities of the shard that serves two symbols
TradeCapacities == {1, 2}
\* number of orders fed to that shard: two symbols need two orders each to
\* trade
MaxTradeOrders == MaxOrders + 1

\* the symbols of a shard that serves two of them
TradeSymbols == {0, 1}

\* the same shard fed with orders of two symbols
InitTwoSymbols ==
    InitBooks /\ symbols = TradeSymbols /\ caps = DefaultCaps

NextOutbound ==
    \/ \E sym \in symbols, s \in Sides, t \in OutboundTIFs, q \in NewQtys :
          ProcessOrder(NewLimit(sym, s, t, FALSE, 1, q))
    \/ EmitTrade
    \/ EmitEvent
    \/ DrainedLoopTop
    \/ ConsumeTrade
    \/ ConsumeEvent


\* the shard that serves two symbols, fed with Day limit orders at one price
NextTrades ==
    \/ \E sym \in symbols, s \in Sides, q \in NewQtys :
          ProcessOrderUpTo(NewLimit(sym, s, "Day", FALSE, 1, q), MaxTradeOrders)
    \/ EmitTrade
    \/ EmitEvent
    \/ DrainedLoopTop
    \/ ConsumeTrade
    \/ ConsumeEvent

\* The steps of the shard's worker thread once it holds an order.  The thread
\* is scheduled again and again; nothing is assumed of the consumers of the
\* rings, which may never run.
WorkerEmits == EmitTrade \/ EmitEvent \/ DrainedLoopTop

FairWorker == WF_vars(WorkerEmits)

\* one symbol, outbound rings of capacity 1 or 2
InitOverflowShard ==
    /\ InitShard
    /\ InitRings /\ outCapacity \in TradeCapacities
(***************************************************************************)
(* Two threads inside MatchingEngine::submit (matching_engine.cpp:48-67)   *)
(* with orders of the same shard.  The engine has one shard and has been   *)
(* started; the shard's inbox is the RingBuffer of SpecRing, written       *)
(* through writer.tryEnqueue by both threads and read by the shard's       *)
(* worker through reader_.tryDequeue (the Deq steps of SpecRing).  The     *)
(* order of a call is represented by its id.                               *)
(***************************************************************************)

\* the two submitting threads
Threads == {1, 2}

\* the ringCapacity of a constructed engine: a power of two
RaceCapacities == {c \in 1..MaxCapacity : isPowerOfTwo(c)}

\* what the steps of a submitting thread leave alone
RaceFrame ==
    /\ UNCHANGED <<meState, numShards, ringCapacity, meRunning, inbox,
                   icState, numProducers_, mailboxCapacity_, icRunning, icJoining,
                   mailbox, thr, thrEv, thrShard, crashed, inboxWriters, mailboxReaders>>
    /\ UNCHANGED <<rbState, capacity_, mask_, mode_, tail_,
                   pPc, pHead, pTail, pItem, cPc, cTail, cHead, cOut, returned>>
    /\ UNCHANGED <<shardVars, engineVars, outboundVars, gatewayVars>>

\* thread t calls submit: running is true, the router names the shard, and
\* tryEnqueue reads head = head_.load(relaxed)
RaceSubmit(t) ==
    /\ rbState = "live" /\ mode_ = "Single"
    /\ rPc[t] = "idle"
    /\ submitted < MaxSubmit
    /\ submitted' = submitted + 1
    /\ rItem' = [rItem EXCEPT ![t] = submitted + 1]
    /\ rHead' = [rHead EXCEPT ![t] = head_]
    /\ rPc' = [rPc EXCEPT ![t] = "loadTail"]
    /\ UNCHANGED <<rTail, buffer_, head_, accepted, enq, drop>>
    /\ RaceFrame

\* tryEnqueue: tail = tail_.load(acquire)
RaceLoadTail(t) ==
    /\ rPc[t] = "loadTail"
    /\ rTail' = [rTail EXCEPT ![t] = tail_]
    /\ rPc' = [rPc EXCEPT ![t] = "check"]
    /\ UNCHANGED <<rHead, rItem, buffer_, head_, accepted, enq, drop, submitted>>
    /\ RaceFrame

\* tryEnqueue: the ring is full, return false
RaceFull(t) ==
    /\ rPc[t] = "check"
    /\ EnqIsFull(rHead[t], rTail[t])
    /\ rPc' = [rPc EXCEPT ![t] = "countDrop"]
    /\ UNCHANGED <<rHead, rTail, rItem, buffer_, head_, accepted, enq, drop, submitted>>
    /\ RaceFrame

\* another thread is between its own write of the same slot and its store
\* of head_
SlotContended(t) ==
    \E u \in Threads \ {t} :
        rPc[u] = "store" /\ SlotIndex(rHead[u]) = SlotIndex(rHead[t])

\* tryEnqueue: buffer_[idx] = item.  Two unordered writes of one slot are a
\* data race: the slot holds the item or a mix of the two orders (-1).
RaceWriteSlot(t) ==
    /\ rPc[t] = "check"
    /\ ~EnqIsFull(rHead[t], rTail[t])
    /\ \E v \in (IF SlotContended(t) THEN {rItem[t], -1} ELSE {rItem[t]}) :
          buffer_' = SlotWrite(SlotIndex(rHead[t]), v)
    /\ rPc' = [rPc EXCEPT ![t] = "store"]
    /\ UNCHANGED <<rHead, rTail, rItem, head_, accepted, enq, drop, submitted>>
    /\ RaceFrame

\* tryEnqueue: head_.store(head + 1, release); return true
RaceStoreHead(t) ==
    /\ rPc[t] = "store"
    /\ head_' = Add64(rHead[t], 1)
    /\ rPc' = [rPc EXCEPT ![t] = "countEnq"]
    /\ UNCHANGED <<rHead, rTail, rItem, buffer_, accepted, enq, drop, submitted>>
    /\ RaceFrame

\* submit: impl_->enq.fetch_add(1); return true
RaceCountEnq(t) ==
    /\ rPc[t] = "countEnq"
    /\ enq' = enq + 1
    /\ accepted' = Append(accepted, rItem[t])
    /\ rPc' = [rPc EXCEPT ![t] = "idle"]
    /\ UNCHANGED <<rHead, rTail, rItem, buffer_, head_, drop, submitted>>
    /\ RaceFrame

\* submit: impl_->drop.fetch_add(1); return false
RaceCountDrop(t) ==
    /\ rPc[t] = "countDrop"
    /\ drop' = drop + 1
    /\ rPc' = [rPc EXCEPT ![t] = "idle"]
    /\ UNCHANGED <<rHead, rTail, rItem, buffer_, head_, accepted, enq, submitted>>
    /\ RaceFrame

InitRace ==
    /\ rPc = [t \in Threads |-> "idle"]
    /\ rHead = [t \in Threads |-> 0]
    /\ rTail = [t \in Threads |-> 0]
    /\ rItem = [t \in Threads |-> 0]

NextRace ==
    \/ \E cap \in RaceCapacities : RingCtor(cap, "Single")
    \/ \E t \in Threads : RaceSubmit(t)
    \/ \E t \in Threads : RaceLoadTail(t)
    \/ \E t \in Threads : RaceFull(t)
    \/ \E t \in Threads : RaceWriteSlot(t)
    \/ \E t \in Threads : RaceStoreHead(t)
    \/ \E t \in Threads : RaceCountEnq(t)
    \/ \E t \in Threads : RaceCountDrop(t)
    \/ DeqLoadTail
    \/ DeqLoadHead
    \/ DeqEmpty
    \/ DeqReadSlot
    \/ DeqStoreTail


(***************************************************************************)
(* IngressOrderGateway (backtester.cpp:13-53): the strategy's calls become *)
(* Orders with ids from the gateway's own generator.                       *)
(***************************************************************************)
\* std::uint64_t nextId_{1000000000000ULL}: beyond TLC's 32-bit integers,
\* modelled by 10^9, likewise far above every id the decoder assigns
GatewayIdBase == 1000000000

\* the number of orders one gateway builds in a run of the model
GatewayCalls == 1..3
\* the ids the strategy names as targets: an id of the feed and the first
\* id of the gateway
GatewayTargets == {1, GatewayIdBase}
\* time in force of the strategy's limit orders
GatewayTIFs == {"Day", "IOC"}

\* faulty variant: the generator is read but not advanced
GatewaySubmitSameId(o) ==
    /\ Len(gwOut) + 1 \in GatewayCalls
    /\ gwOut' = Append(gwOut, [o EXCEPT !.id = nextId_])
    /\ nextId_' = nextId_
    /\ UNCHANGED <<ringVars, shardVars, ingressVars, engineVars, outboundVars, raceVars>>

\* ingress_.submitFromDecoder(o) of the gateway, after o.id = nextId_++
GatewaySubmit(o) ==
    /\ Len(gwOut) + 1 \in GatewayCalls
    /\ gwOut' = Append(gwOut, [o EXCEPT !.id = nextId_])
    /\ nextId_' = nextId_ + 1
    /\ UNCHANGED <<ringVars, shardVars, ingressVars, engineVars, outboundVars, raceVars>>

\* submitNewLimit
submitNewLimit(symbolId, side, priceCents, qty, tif, postOnly) ==
    GatewaySubmit([DefaultOrder EXCEPT !.symbolId = symbolId, !.op = "New", !.side = side,
                       !.type = "LIMIT", !.tif = tif, !.postOnly = postOnly,
                       !.priceCents = priceCents, !.qty = qty])

\* submitNewMarket
submitNewMarket(symbolId, side, qty, tif) ==
    GatewaySubmit([DefaultOrder EXCEPT !.symbolId = symbolId, !.op = "New", !.side = side,
                       !.type = "MARKET", !.tif = tif, !.qty = qty])

\* faulty variant: the Cancel names a symbol, symbol 1
CancelRecordOfSymbol(targetOrderId) ==
    [DefaultOrder EXCEPT !.symbolId = 1, !.op = "Cancel", !.targetId = targetOrderId]
\* the Order of submitCancel: Order o{}; o.op = Cancel; o.targetId = ...
CancelRecord(targetOrderId) ==
    [DefaultOrder EXCEPT !.op = "Cancel", !.targetId = targetOrderId]

\* the Order of submitReplace: Order o{}; o.op = Replace; o.targetId = ...;
\* o.newPriceCents = ...; o.newQty = ...
ReplaceRecord(targetOrderId, newPriceCents, newQty) ==
    [DefaultOrder EXCEPT !.op = "Replace", !.targetId = targetOrderId,
                         !.newPriceCents = newPriceCents, !.newQty = newQty]

\* submitCancel
submitCancel(targetOrderId) == GatewaySubmit(CancelRecord(targetOrderId))

\* submitReplace
submitReplace(targetOrderId, newPriceCents, newQty) ==
    GatewaySubmit(ReplaceRecord(targetOrderId, newPriceCents, newQty))

InitGateway ==
    /\ nextId_ = GatewayIdBase
    /\ gwOut = <<>>

\* the strategy's calls; an id does not depend on the arguments of the call,
\* so one symbol and one lot stand for all
NextGateway ==
    \/ \E s \in Sides, p \in Prices, t \in GatewayTIFs : submitNewLimit(0, s, p, 1, t, FALSE)
    \/ \E s \in Sides : submitNewMarket(0, s, 1, "IOC")
    \/ \E tg \in GatewayTargets : submitCancel(tg)
    \/ \E tg \in GatewayTargets, np \in 0..1 : submitReplace(tg, np, 0)

(***************************************************************************)
(* The strategy gateway in front of the running system: an Order built by  *)
(* IngressOrderGateway goes through submitFromDecoder into a mailbox, its  *)
(* producer thread forwards it to the inbox of shardOf(order), and the     *)
(* worker of that shard applies it to books_[order.symbolId].              *)
(***************************************************************************)
\* the number of orders the gateway sends down the path: an order to rest
\* and a Cancel or Replace that names it
PathCalls == 1..2

\* a call of the gateway in full: o.id = nextId_++; and
\* ingress_.submitFromDecoder(o)
GatewayForward(o) ==
    /\ Len(gwOut) + 1 \in PathCalls
    /\ MailboxEnqueue([o EXCEPT !.id = nextId_])
    /\ gwOut' = Append(gwOut, [o EXCEPT !.id = nextId_])
    /\ nextId_' = nextId_ + 1

\* the numShards of the engine behind the gateway
PathShardCounts == 1..2
\* the numProducers of the coordinator behind the gateway
PathProducerCounts == 1..2
\* the capacity of its inboxes and mailboxes
PathCapacities == {2}

NextGatewayPath ==
    \/ \E n \in PathShardCounts, cap \in PathCapacities : EngineCtor(n, cap)
    \/ \E k \in PathProducerCounts, cap \in PathCapacities : CoordinatorCtor(k, cap)
    \/ StartCas
    \/ StartShard
    \/ ResetEnq
    \/ ResetDrop
    \/ ResetProc
    \/ ResetTrades
    \/ CoordinatorStart
    \/ \E sym \in EngineSymbols : GatewayForward(NewLimit(sym, "BUY", "Day", FALSE, 1, 1))
    \/ \E tg \in GatewayTargets : GatewayForward(CancelRecord(tg))
    \/ \E tg \in GatewayTargets, np \in 0..1 : GatewayForward(ReplaceRecord(tg, np, 1))
    \/ \E idx \in DOMAIN thr : ProducerDequeue(idx)
    \/ \E idx \in DOMAIN thr : ProducerForward(idx)
    \/ \E sh \in DOMAIN inbox : WorkerTest(sh)
    \/ \E sh \in DOMAIN inbox : WorkerProcess(sh)
\* everything but the Shard
InitRest ==
    InitRing /\ InitIngress /\ InitEngine /\ InitOutbound /\ InitRace /\ InitGateway

Init == InitShard /\ InitRest

SpecRing == Init /\ [][NextRing]_vars

SpecShard == Init /\ [][NextShard]_vars

SpecSession == Init /\ [][NextSession]_vars

SpecIngress == Init /\ [][NextIngress]_vars

SpecEngine == Init /\ [][NextEngine]_vars

SpecOutbound == Init /\ [][NextOutbound]_vars

SpecRace == Init /\ [][NextRace]_vars

SpecIngressLive == Init /\ [][NextIngressLive]_vars /\ FairThreads

InitMarket == InitMarketShard /\ InitRest

SpecStop == Init /\ [][NextIngressLive]_vars /\ FairStop

SpecLifecycle == Init /\ [][NextLifecycle]_vars

SpecOrdering == Init /\ [][NextOrdering]_vars

SpecGatewayPath == Init /\ [][NextGatewayPath]_vars

SpecMarket == InitMarket /\ [][NextMarket]_vars

SpecGateway == Init /\ [][NextGateway]_vars

InitTrades ==
    /\ InitTwoSymbols
    /\ InitRings /\ outCapacity \in TradeCapacities
    /\ InitRing /\ InitIngress /\ InitEngine /\ InitRace /\ InitGateway

SpecTrades == InitTrades /\ [][NextTrades]_vars

InitOverflow ==
    /\ InitOverflowShard
    /\ InitRing /\ InitIngress /\ InitEngine /\ InitRace /\ InitGateway

SpecOverflow == InitOverflow /\ [][NextOutbound]_vars /\ FairWorker

(***************************************************************************)
(* Claims about the ring.                                                  *)
(***************************************************************************)

\* C1 (Ring FIFO): on a ring of power-of-two capacity, with one producer and
\* one consumer interleaved at every load and store, the values handed out by
\* successful tryDequeue calls are a prefix of the values accepted by
\* successful tryEnqueue calls.
C1_RingFifo ==
    (rbState = "live" /\ IsPow2(capacity_)) => IsPrefix(returned, accepted)

\* C1 witness: a ring of capacity 2 through which more items than the counter
\* width have passed (head_ and tail_ have both wrapped), all handed out.
C1_Witness ==
    /\ rbState = "live" /\ capacity_ = 2
    /\ Len(accepted) > CounterModulus
    /\ Len(returned) = Len(accepted)

\* The occupancy head - tail (unsigned) never exceeds the capacity.
RingOccupancyOK == Sub64(head_, tail_) <= capacity_

\* head_ and tail_ change only by +1 (modulo the counter width).
RingCounterStep ==
    /\ head_' = head_ \/ head_' = Add64(head_, 1)
    /\ tail_' = tail_ \/ tail_' = Add64(tail_, 1)

\* C2: in every reachable state 0 <= head - tail <= capacity, and every step
\* leaves head and tail alone or advances one of them by exactly 1.
C2_RingOccupancy == []RingOccupancyOK /\ [][RingCounterStep]_vars

\* C2 witness: a full ring of capacity 4 whose head has wrapped and whose
\* tail has not.
C2_Witness ==
    /\ rbState = "live" /\ capacity_ = 4
    /\ Sub64(head_, tail_) = capacity_
    /\ head_ < tail_

\* C3: no RingBuffer object with a capacity that is not a power of two
\* exists (the constructor refuses it).
C3_RingCapacityPow2 == rbState = "live" => IsPow2(capacity_)

(***************************************************************************)
(* Claims about construction.                                              *)
(***************************************************************************)

\* C4: MatchingEngine construction with a ringCapacity that is not a power of
\* two, and IngressCoordinator construction with a mailboxCapacity that is not
\* a power of two, throw: an engine or a coordinator exists only with a
\* power-of-two capacity, and a constructor throws only for another one.
C4_ConstructionFailsFast ==
    /\ meState = "constructed" => IsPow2(ringCapacity)
    /\ meState = "threw" => ~IsPow2(ringCapacity)
    /\ icState = "constructed" => IsPow2(mailboxCapacity_)
    /\ icState = "threw" => ~IsPow2(mailboxCapacity_)
    /\ (meState # "constructed") =>
          (inbox = EmptyMap /\ ~meRunning /\ icState = "none")
    /\ (icState # "constructed") =>
          (mailbox = EmptyMap /\ thr = EmptyMap /\ ~icRunning /\ submitted = 0)

\* C4 witness: an engine was built with capacity 2 and the coordinator's
\* constructor threw for the mailbox capacity 3.
C4_Witness ==
    /\ meState = "constructed" /\ ringCapacity = 2
    /\ icState = "threw" /\ mailboxCapacity_ = 3

(***************************************************************************)
(* Claims about the book and the matching.                                 *)
(***************************************************************************)

\* the resting orders of a book: <<isBid, price of the level, position>>
LevelKeys(bk) == ({TRUE} \X DOMAIN bk.bids) \cup ({FALSE} \X DOMAIN bk.asks)
RestingAt(bk) ==
    UNION {{<<lk[1], lk[2], i>> : i \in 1..Len(SideMap(bk, lk[1])[lk[2]].q)} :
              lk \in LevelKeys(bk)}
NodeAt(bk, k) == SideMap(bk, k[1])[k[2]].q[k[3]]

\* the total quantity resting on a side
TotalQty(bk, isBid) == SumLevels(SideMap(bk, isBid), DOMAIN SideMap(bk, isBid))

\* the total quantity of a sequence of Trades
RECURSIVE TradedQty(_)
TradedQty(tr) == IF tr = <<>> THEN 0 ELSE tr[1].qty + TradedQty(Tail(tr))

\* C5 (No crossed book): whenever the worker has finished an order, for every
\* symbol one side of the book is empty or the best bid is strictly below the
\* best ask.
C5_NoCrossedBook ==
    \A s \in DOMAIN books_ :
        \/ DOMAIN books_[s].bids = {}
        \/ DOMAIN books_[s].asks = {}
        \/ bestBid(books_[s]) < bestAsk(books_[s])

\* One step of the worker on a New order o of an open symbol conserves
\* quantity: pre and post are the symbol's book before and after.
Conserved(o, pre, post, trades) ==
    LET isBuy    == o.side = "BUY"
        matched  == TradedQty(trades)
        residual == o.qty - matched
        mine     == {k \in RestingAt(post) : NodeAt(post, k).id = o.id}
    IN  /\ 0 <= matched /\ matched <= o.qty
        /\ TotalQty(pre, ~isBuy) - TotalQty(post, ~isBuy) = matched
        /\ IF o.type = "LIMIT" /\ o.tif = "Day"
           THEN /\ TotalQty(post, isBuy) - TotalQty(pre, isBuy) = residual
                /\ residual = 0 <=> mine = {}
                /\ \A k \in mine : /\ k[1] = isBuy /\ k[2] = o.priceCents
                                    /\ NodeAt(post, k).qty = residual
                /\ Cardinality(mine) <= 1
           ELSE /\ TotalQty(post, isBuy) = TotalQty(pre, isBuy)
                /\ mine = {}
                /\ o.id \notin DOMAIN post.idToLoc

ConservationStep ==
    (wPc = "top" /\ wPc' = "done" /\ evIn'.op = "New"
        /\ getSymbolStatus(evIn'.symbolId) = "Open")
    => Conserved(evIn', BookOf(evIn'.symbolId), books_'[evIn'.symbolId], emitT')

\* C6 (Conservation): for every New order the worker processes, in any
\* reachable book, the quantities of the trades emitted for it sum to between
\* 0 and order.qty, to order.qty iff nothing of it is left; what is left rests
\* on the book with exactly that quantity for a Day limit order and does not
\* rest for IOC, FOK and market orders; the quantity taken off the opposite
\* side equals the matched quantity.
C6_Conservation == [][ConservationStep]_vars

\* C6 witness: a Day limit order of 2 lots was filled for 1 lot and its
\* residual of 1 lot rests.
C6_Witness ==
    /\ wPc = "done" /\ evIn.op = "New" /\ evIn.type = "LIMIT" /\ evIn.tif = "Day"
    /\ evIn.qty = 2 /\ TradedQty(emitT) = 1
    /\ evIn.id \in DOMAIN books_[evIn.symbolId].idToLoc
    /\ ev.qty = 1

\* C7 (Locator consistency): in every book, idToLoc has the key id iff exactly
\* one resting order has that id, and the Locator's side, price, level and
\* position designate that order; no operation went through a dangling
\* Locator.
C7_LocatorConsistency ==
    \A s \in DOMAIN books_ :
        LET bk == books_[s] IN
        /\ ~bk.ub
        /\ \A k \in RestingAt(bk) : NodeAt(bk, k).id \in DOMAIN bk.idToLoc
        /\ \A id \in DOMAIN bk.idToLoc :
              LET at  == {k \in RestingAt(bk) : NodeAt(bk, k).id = id}
                  loc == bk.idToLoc[id]
              IN  /\ Cardinality(at) = 1
                  /\ \A k \in at :
                        /\ loc.isBid = k[1]
                        /\ loc.price = k[2]
                        /\ loc.level = SideMap(bk, k[1])[k[2]].h
                        /\ loc.it = NodeAt(bk, k).h

\* C7 witness: a Replace re-inserted its target behind another order of the
\* same level, and both have their Locators.
C7_Witness ==
    /\ wPc = "done" /\ evIn.op = "Replace"
    /\ \E s \in DOMAIN books_ : \E k \in RestingAt(books_[s]) :
          /\ k[3] = 2
          /\ NodeAt(books_[s], k).id = evIn.id
          /\ Cardinality(DOMAIN books_[s].idToLoc) = 2

\* C8: in every book, every price key of the bids and of the asks has a
\* non-empty queue (a level is in the map iff its queue holds an order).
C8_NoEmptyLevel ==
    \A s \in DOMAIN books_ :
        /\ \A p \in DOMAIN books_[s].bids : books_[s].bids[p].q # <<>>
        /\ \A p \in DOMAIN books_[s].asks : books_[s].asks[p].q # <<>>

\* C8 witness: two bids rested at two prices, a Cancel took the only order of
\* the level at price 2, and only the level at price 1 is left.
C8_Witness ==
    /\ wPc = "done" /\ evIn.op = "Cancel" /\ procCount = 3
    /\ \E s \in DOMAIN books_ :
          /\ books_[s].alloc = 5
          /\ DOMAIN books_[s].bids = {1}
          /\ DOMAIN books_[s].asks = {}
          /\ evIn.targetId \notin DOMAIN books_[s].idToLoc

\* the resting order with the id makerId on the given side of a book had
\* the price
MakerPrice(bk, isBid, makerId, price) ==
    \E k \in RestingAt(bk) :
        /\ k[1] = isBid
        /\ NodeAt(bk, k).id = makerId
        /\ k[2] = price
        /\ NodeAt(bk, k).priceCents = price

TradePriceStep ==
    (wPc = "top" /\ wPc' = "done") =>
        LET o     == evIn'
            pre   == BookOf(o.symbolId)
            isBuy == o.side = "BUY"
            execs == SelectSeq(emitE', LAMBDA e : e.type = "Exec")
        IN  /\ \A i \in 1..Len(emitT') :
                  MakerPrice(pre, ~isBuy,
                             IF isBuy THEN emitT'[i].sellOrderId ELSE emitT'[i].buyOrderId,
                             emitT'[i].priceCents)
            /\ Len(execs) = Len(emitT')
            /\ \A i \in 1..Len(execs) :
                  MakerPrice(pre, ~isBuy, execs[i].relatedId, execs[i].priceCents)

\* C10 (Trade price rule): every Trade and every Exec event the worker emits
\* while it processes an order carries the price of the resting order it
\* matched against, as that order rested in the book before the step.
C10_TradePriceRule == [][TradePriceStep]_vars

\* C10 witness: a limit order traded at a price different from its own limit.
C10_Witness ==
    /\ wPc = "done" /\ evIn.op = "New" /\ evIn.type = "LIMIT"
    /\ emitT # <<>>
    /\ emitT[1].priceCents # evIn.priceCents
    /\ \E i \in 1..Len(emitE) : emitE[i].type = "Exec" /\ emitE[i].priceCents # evIn.priceCents

(***************************************************************************)
(* Claims about the ingress path.                                          *)
(***************************************************************************)

\* the order is where the routing rule puts it: mailbox (s mod N) mod K
InRightMailbox(order, m) == (order.symbolId % numShards) % numProducers_ = m
\* shard s mod N, which is also the answer of OrderRouter::shardOf
InRightInbox(order, sh) ==
    /\ order.symbolId % numShards = sh
    /\ RouterShardOf(numShards, order) = sh

\* C9 (Routing stability and SPSC): with N >= 1 shards and K >= 1 producers,
\* every order with symbolId s is in mailbox (s mod N) mod K until producer
\* thread (s mod N) mod K takes it, and is forwarded to the inbox of shard
\* s mod N, which is the answer of OrderRouter::shardOf; each inbox has been
\* written by at most one producer thread, each mailbox is read by its own
\* producer thread only, and that thread exists while the coordinator runs.
C9_RoutingSpsc ==
    (icState = "constructed" /\ numShards >= 1 /\ numProducers_ >= 1) =>
        /\ \A m \in DOMAIN mailbox : \A i \in 1..Len(mailbox[m]) :
              InRightMailbox(mailbox[m][i], m)
        /\ \A t \in DOMAIN thr : thr[t] = "spin" =>
              /\ InRightMailbox(thrEv[t], t)
              /\ InRightInbox(thrEv[t], thrShard[t])
        /\ \A sh \in DOMAIN inbox : \A i \in 1..Len(inbox[sh]) :
              InRightInbox(inbox[sh][i], sh)
        /\ \A sh \in DOMAIN inbox : Cardinality(inboxWriters[sh]) <= 1
        /\ \A m \in DOMAIN mailbox : mailboxReaders[m] \subseteq {m}
        /\ icRunning => \A m \in DOMAIN mailbox : thr[m] \in {"top", "spin"}

\* C9 witness: 3 shards and 2 producers; producer 0 forwarded an order of
\* symbol 2 to shard 2, producer 1 an order of symbol 1 to shard 1.
C9_Witness ==
    /\ icState = "constructed" /\ numShards = 3 /\ numProducers_ = 2
    /\ inboxWriters[2] = {0} /\ inboxWriters[1] = {1}
    /\ mailboxReaders[0] = {0} /\ mailboxReaders[1] = {1}
    /\ inbox[2] # <<>> /\ inbox[2][1].symbolId = 2

(***************************************************************************)
(* Claims about order types and the session gate.                          *)
(***************************************************************************)

\* the sum of the quantities of the Exec events of a sequence of Events
RECURSIVE ExecQty(_)
ExecQty(evs) ==
    IF evs = <<>> THEN 0
    ELSE (IF Head(evs).type = "Exec" THEN Head(evs).qty ELSE 0) + ExecQty(Tail(evs))

\* the Events are one Reject and nothing else
OnlyReject(evs) == Len(evs) = 1 /\ evs[1].type = "Reject"

FokStep ==
    (/\ wPc = "top" /\ wPc' = "done"
     /\ evIn'.op = "New" /\ evIn'.tif = "FOK"
     /\ getSymbolStatus(evIn'.symbolId) = "Open")
    => \/ /\ ExecQty(emitE') = evIn'.qty
          /\ ~ \E i \in 1..Len(emitE') : emitE'[i].type = "Reject"
       \/ /\ OnlyReject(emitE')
          /\ emitT' = <<>>

\* C11 (FOK): a New order with TIF = FOK, limit or market, processed while
\* its symbol is Open is either filled in full (its Exec quantities sum to
\* its qty) or yields exactly one Reject and no Exec or Trade; it is never
\* filled in part.
C11_FokAllOrNothing == [][FokStep]_vars

\* the same for limit orders only
FokLimitStep == (evIn'.type = "LIMIT") => FokStep
FokLimitAllOrNothing == [][FokLimitStep]_vars

\* a market FOK order was filled in part: one lot of two
FokMarketPartial ==
    /\ wPc = "done" /\ evIn.op = "New" /\ evIn.type = "MARKET" /\ evIn.tif = "FOK"
    /\ evIn.qty = 2 /\ ExecQty(emitE) = 1 /\ Len(emitT) = 1

\* the limit order would cross the best price of the opposite side of bk
WouldCross(o, bk) ==
    IF o.side = "BUY" THEN bestAsk(bk) # -1 /\ bestAsk(bk) <= o.priceCents
    ELSE bestBid(bk) # -1 /\ bestBid(bk) >= o.priceCents

\* the order with the id rests in the book
Rests(bk, id) == \E k \in RestingAt(bk) : NodeAt(bk, k).id = id

PostOnlyStep ==
    (/\ wPc = "top" /\ wPc' = "done"
     /\ evIn'.op = "New" /\ evIn'.type = "LIMIT" /\ evIn'.postOnly
     /\ getSymbolStatus(evIn'.symbolId) = "Open")
    => LET pre  == BookOf(evIn'.symbolId)
           post == books_'[evIn'.symbolId]
       IN  IF WouldCross(evIn', pre)
           THEN /\ OnlyReject(emitE') /\ emitT' = <<>>
                /\ post.bids = pre.bids /\ post.asks = pre.asks
           ELSE /\ emitE' = <<>> /\ emitT' = <<>>
                /\ Rests(post, evIn'.id)

\* C12 (post-only): a New limit order with postOnly = true that is not
\* marketable rests on the book and no Trade or Exec is emitted for it; one
\* that would cross the opposite best price is rejected with a single Reject
\* and is not matched.  A post-only order never takes liquidity.
C12_PostOnlyNeverTakes == [][PostOnlyStep]_vars

\* a post-only limit order took liquidity
PostOnlyTook ==
    /\ wPc = "done" /\ evIn.op = "New" /\ evIn.type = "LIMIT" /\ evIn.postOnly
    /\ Len(emitT) = 1 /\ emitT[1].buyOrderId = evIn.id

GateStep ==
    (/\ wPc = "top" /\ wPc' = "done"
     /\ getSymbolStatus(evIn'.symbolId) \in {"Halted", "Closed"})
    => LET o    == evIn'
           pre  == BookOf(o.symbolId)
           post == books_'[o.symbolId]
       IN  /\ procCount' = procCount + 1
           /\ IF o.op = "Cancel"
              THEN /\ post = cancelById(pre, o.targetId).bk
                   /\ emitE' = <<>> /\ emitT' = <<>>
              ELSE /\ OnlyReject(emitE') /\ emitE'[1].orderId = o.id
                   /\ emitT' = <<>>
                   /\ post = pre
                   /\ tradesCount' = tradesCount

\* C13 (session gate): while the status of a symbol is Halted or Closed, a
\* Cancel for it is applied to the book as usual, and every New (limit or
\* market) and every Replace yields exactly one Reject, no Trade and no Exec,
\* and leaves the book as it was; either way processed grows by exactly 1.
C13_SessionGate == [][GateStep]_vars

\* C13 witness: an order rested, its symbol was halted, and a Cancel took the
\* order out of the book.
C13_Witness ==
    /\ wPc = "done" /\ evIn.op = "Cancel"
    /\ getSymbolStatus(evIn.symbolId) = "Halted"
    /\ procCount = 3
    /\ books_[evIn.symbolId].idToLoc = EmptyMap
    /\ books_[evIn.symbolId].alloc > 1

\* the FIFO queue of a price level, empty when the book has no such level
LevelQueue(bk, isBid, p) ==
    IF p \in DOMAIN SideMap(bk, isBid) THEN SideMap(bk, isBid)[p].q ELSE <<>>

\* book b is book a without the order id: every other resting order is at
\* its level, at its place in the queue, with its quantity
SameButFor(a, b, id) ==
    \A isBid \in BOOLEAN : \A p \in DOMAIN SideMap(a, isBid) \cup DOMAIN SideMap(b, isBid) :
        LevelQueue(b, isBid, p) = SelectSeq(LevelQueue(a, isBid, p), LAMBDA n : n.id # id)

IocStep ==
    (/\ wPc = "top" /\ wPc' = "done"
     /\ evIn'.op = "New" /\ evIn'.type = "LIMIT" /\ evIn'.tif = "IOC"
     /\ getSymbolStatus(evIn'.symbolId) = "Open")
    => LET o    == evIn'
           pre  == BookOf(o.symbolId)
           post == books_'[o.symbolId]
           day  == Gate([order |-> [o EXCEPT !.tif = "Day"], bk |-> pre,
                         tid |-> tradeIdGen_, tc |-> tradesCount,
                         tr |-> <<>>, evs |-> <<>>])
       IN  /\ ~Rests(post, o.id)
           /\ o.id \notin DOMAIN post.idToLoc
           /\ emitT' = day.tr
           /\ emitE' = day.evs
           /\ SameButFor(day.bk, post, o.id)

\* C19 (IOC): after a New limit order with TIF = IOC has been processed, no
\* order with its id rests in the book, whatever part of it was filled; its
\* fills are the fills a Day order would have obtained, and every other
\* resting order is as the matching left it.
C19_IocNeverRests == [][IocStep]_vars

\* C19 witness: an IOC limit order of two lots was filled for one lot against
\* a book that keeps another resting order, and does not rest.
C19_Witness ==
    /\ wPc = "done" /\ evIn.op = "New" /\ evIn.type = "LIMIT" /\ evIn.tif = "IOC"
    /\ evIn.qty = 2 /\ ExecQty(emitE) = 1
    /\ ~Rests(books_[evIn.symbolId], evIn.id)
    /\ RestingAt(books_[evIn.symbolId]) # {}

\* the ids of the resting orders of a book
RestingIds(bk) == {NodeAt(bk, k).id : k \in RestingAt(bk)}

MarketStep ==
    (/\ wPc = "top" /\ wPc' = "done"
     /\ evIn'.op = "New" /\ evIn'.type = "MARKET"
     /\ getSymbolStatus(evIn'.symbolId) = "Open")
    => LET o    == evIn'
           pre  == BookOf(o.symbolId)
           post == books_'[o.symbolId]
       IN  /\ RestingIds(post) \subseteq RestingIds(pre)
           /\ DOMAIN post.idToLoc \subseteq DOMAIN pre.idToLoc
           /\ Cardinality(RestingAt(post)) <= Cardinality(RestingAt(pre))
           /\ ~Rests(post, o.id)
           /\ SideMap(post, o.side = "BUY") = SideMap(pre, o.side = "BUY")
           /\ post.alloc = pre.alloc

\* C20 (market orders never rest): processing a New Market order, of any
\* side and TIF and on any book, adds no order to either side of the book:
\* the resting ids after the step are among those before it, the order's own
\* side is untouched, and what was not filled is discarded.
C20_MarketNeverRests == [][MarketStep]_vars

\* C20 witness: a market order of two lots found one lot, and the book is
\* empty afterwards: the second lot rests nowhere.
C20_Witness ==
    /\ wPc = "done" /\ evIn.op = "New" /\ evIn.type = "MARKET"
    /\ evIn.qty = 2 /\ ExecQty(emitE) = 1
    /\ RestingAt(books_[evIn.symbolId]) = {}

(***************************************************************************)
(* Claims about the engine's lifecycle and counters.                       *)
(***************************************************************************)

\* C14 (graceful shutdown): every order that was in a shard's inbox when
\* shutdown() / Shard::stop() cleared the running flag has been dequeued and
\* processed by the time that shard's worker has left its loop.
C14_GracefulShutdown ==
    \A sh \in DOMAIN inbox :
        (sh \notin running_ /\ WorkerOf(sh) \in {"exited", "none"}) => OwedOf(sh) = 0

\* the worker leaves its loop only on an inbox miss
ExitOnlyOnMiss ==
    [][\A sh \in DOMAIN inbox :
          (WorkerOf(sh) = "top" /\ worker_'[sh] = "exited") => inbox[sh] = <<>>]_vars

\* an order was accepted, counted, and is still in the inbox of a worker
\* that has been joined
AcceptedNeverProcessed ==
    /\ ~meRunning /\ ctl.pc = "idle"
    /\ enq = 1 /\ procCount = 0
    /\ \E sh \in DOMAIN inbox : Len(inbox[sh]) = 1 /\ WorkerOf(sh) = "none"

NotRunningCallStep ==
    /\ (submitted' = submitted + 1 /\ ~meRunning)
           => (callPc' = "countDrop" /\ inbox' = inbox /\ enq' = enq)
    /\ (callPc = "countDrop" /\ callPc' # "countDrop")
           => (callPc' = "false" /\ drop' = drop + 1 /\ inbox' = inbox /\ enq' = enq)

\* C16: a call of submit or enqueueToShard made while the engine's running
\* flag is false returns false, adds exactly 1 to droppedCount, and leaves
\* every shard inbox and enqueuedCount as they were.
C16_NotRunningCountsDrop == [][NotRunningCallStep]_vars

\* the same for engines with at least one shard
NotRunningCountsDropWithShards == [][numShards >= 1 => NotRunningCallStep]_vars

\* no step makes a counter smaller
MonotoneStep ==
    /\ enq' >= enq
    /\ drop' >= drop
    /\ procCount' >= procCount
    /\ tradesCount' >= tradesCount

\* C17: enqueuedCount, droppedCount, processedCount and tradesCount are
\* monotone over every interleaving of start(), submit(), enqueueToShard(),
\* shard processing and shutdown(), a start() after a shutdown() included.
C17_CountersMonotone == [][MonotoneStep]_vars

\* all four counters were positive and a second start() has put them to 0
CountersResetByRestart ==
    /\ meRunning /\ ctl.pc = "idle" /\ submitted = 2
    /\ enq = 0 /\ procCount = 0 /\ tradesCount = 0
    /\ \E s \in DOMAIN books_ : books_[s].alloc > 1 /\ RestingAt(books_[s]) = {}

(***************************************************************************)
(* Claims about the outbound rings and about concurrent submission.        *)
(***************************************************************************)

\* the order numbers of the records of a ring never decrease from the last
\* record its consumer took to the newest record, and none is ahead of the
\* order the worker is at
TagsOrdered(last, ring) ==
    /\ \A i \in 1..Len(ring) : last <= ring[i].k /\ ring[i].k <= procCount
    /\ \A i \in 1..Len(ring) : \A j \in i..Len(ring) : ring[i].k <= ring[j].k

OutboundStep ==
    /\ TagsOrdered(lastTrade, tradeRing)' /\ TagsOrdered(lastEvent, eventRing)'
    \* a record enters a ring while the worker is at its order
    /\ (Len(tradeRing') > Len(tradeRing))
           => (wPc = "done" /\ tradeRing'[Len(tradeRing')].k = procCount)
    /\ (Len(eventRing') > Len(eventRing))
           => (wPc = "done" /\ eventRing'[Len(eventRing')].k = procCount)
    \* the next order is dequeued and applied when nothing of the order
    \* before it is left to hand over, and it is the next in number
    /\ (wPc = "top" /\ wPc' = "done")
           => (emitT = <<>> /\ emitE = <<>> /\ procCount' = procCount + 1)

\* C15: within one shard the orders are applied in the order they are
\* dequeued, and every Trade and Event of the k-th dequeued order is handed
\* to the outbound rings before any record of the (k+1)-th; a consumer never
\* sees the records of two orders interleaved.
C15_NoInterleaving == [][OutboundStep]_vars

\* C15 witness: the event ring holds an Event of one order followed by an
\* Event of the next order while the Trade of the first is still in the
\* trade ring.
C15_Witness ==
    /\ Len(eventRing) = 2
    /\ eventRing[1].k + 1 = eventRing[2].k
    /\ tradeRing # <<>> /\ tradeRing[1].k = eventRing[1].k

\* true when every call has returned and the worker has drained the ring
RaceQuiet ==
    /\ \A t \in Threads : rPc[t] = "idle"
    /\ cPc = "idle"
    /\ head_ = tail_

\* C18: when two threads call submit concurrently with orders of the same
\* shard and the calls return true, each of the orders is dequeued by the
\* shard exactly once (none is lost, overwritten or duplicated) and
\* enqueuedCount has grown by the number of such calls.
C18_SubmitThreadSafe ==
    /\ enq = Len(accepted)
    /\ RaceQuiet =>
          /\ Len(returned) = Len(accepted)
          /\ \A j \in 1..Len(accepted) :
                Cardinality({i \in 1..Len(returned) : returned[i] = accepted[j]}) = 1

\* both calls returned true, the worker dequeued once, and the ring is empty
OneOfTwoOrdersLost ==
    /\ RaceQuiet
    /\ Len(accepted) = 2 /\ enq = 2
    /\ Len(returned) = 1


(***************************************************************************)
(* Claims about Cancel and Replace.                                        *)
(***************************************************************************)

\* where the order with this id rests in the book
RestsAt(bk, id) == {k \in RestingAt(bk) : NodeAt(bk, k).id = id}

\* the worker step that applies a Replace of an open symbol whose target
\* rests in the symbol's book
ReplaceOfResting ==
    /\ wPc = "top" /\ wPc' = "done" /\ evIn'.op = "Replace"
    /\ getSymbolStatus(evIn'.symbolId) = "Open"
    /\ RestsAt(BookOf(evIn'.symbolId), evIn'.targetId) # {}

ReplaceCopiesStep ==
    ReplaceOfResting =>
        LET o    == evIn'
            pre  == BookOf(o.symbolId)
            post == books_'[o.symbolId]
            tk   == CHOOSE k \in RestsAt(pre, o.targetId) : TRUE
            T    == NodeAt(pre, tk)
            qty  == IF o.newQty > 0 THEN o.newQty ELSE T.qty
            px   == IF o.newPriceCents # 0 THEN o.newPriceCents ELSE tk[2]
        IN  /\ emitT' = <<>>
            /\ o.id # o.targetId => RestsAt(post, o.targetId) = {}
            /\ Cardinality(RestsAt(post, o.id)) = 1
            /\ \A k \in RestsAt(post, o.id) :
                  /\ k[1] = tk[1]
                  /\ k[2] = px
                  /\ NodeAt(post, k).qty = qty

\* C21 (Replace semantics): when the worker applies a Replace whose targetId
\* names a resting order T, no Trade is emitted, T rests no longer, and
\* exactly one order with the Replace's id rests, on T's side, with quantity
\* newQty if newQty > 0 and T's quantity otherwise, at price newPriceCents if
\* newPriceCents # 0 and T's price otherwise.
C21_ReplaceCopiesTarget == [][ReplaceCopiesStep]_vars

\* what the code does hold to: the replacement takes side, quantity and price
\* from the Replace record itself where the record does not override them
ReplaceCopiesRecordStep ==
    ReplaceOfResting =>
        LET o    == evIn'
            post == books_'[o.symbolId]
            qty  == IF o.newQty > 0 THEN o.newQty ELSE o.qty
            px   == IF o.newPriceCents # 0 THEN o.newPriceCents ELSE o.priceCents
        IN  /\ emitT' = <<>>
            /\ o.id # o.targetId => RestsAt(post, o.targetId) = {}
            /\ Cardinality(RestsAt(post, o.id)) = 1
            /\ \A k \in RestsAt(post, o.id) :
                  /\ k[1] = (o.side = "BUY")
                  /\ k[2] = px
                  /\ NodeAt(post, k).qty = qty
ReplaceCopiesRecord == [][ReplaceCopiesRecordStep]_vars

\* a Replace that carried newQty = 0 left an order of quantity 0 on the book
ReplacementOfZeroQty ==
    /\ wPc = "done" /\ evIn.op = "Replace" /\ evIn.newQty = 0
    /\ \E k \in RestsAt(books_[evIn.symbolId], evIn.id) :
          NodeAt(books_[evIn.symbolId], k).qty = 0

\* the queue of a level, <<>> where the book has no such level
QueueOf(bk, lk) ==
    IF lk[2] \in DOMAIN SideMap(bk, lk[1]) THEN SideMap(bk, lk[1])[lk[2]].q ELSE <<>>

\* post is pre without the order id: every level keeps its other orders, with
\* their quantities, in their order; a level that held only that order is
\* gone; the Locator of the order is gone and every other Locator is kept
RemovedExactly(pre, post, id) ==
    /\ LevelKeys(post) \subseteq LevelKeys(pre)
    /\ \A lk \in LevelKeys(pre) :
          /\ QueueOf(post, lk) = SelectSeq(QueueOf(pre, lk), LAMBDA n : n.id # id)
          /\ lk \in LevelKeys(post) <=> QueueOf(post, lk) # <<>>
    /\ Cardinality(RestingAt(post)) = Cardinality(RestingAt(pre)) - 1
    /\ DOMAIN post.idToLoc = DOMAIN pre.idToLoc \ {id}
    /\ \A i \in DOMAIN post.idToLoc : post.idToLoc[i] = pre.idToLoc[i]

CancelStep ==
    (wPc = "top" /\ wPc' = "done" /\ evIn'.op = "Cancel") =>
        LET id    == evIn'.targetId
            pre   == BookOf(evIn'.symbolId)
            post  == books_'[evIn'.symbolId]
            c     == cancelById(pre, id)
            again == cancelById(post, id)
        IN  /\ post = c.bk
            /\ c.found <=> RestsAt(pre, id) # {}
            /\ c.found => RemovedExactly(pre, post, id)
            /\ ~c.found => post = pre
            /\ ~again.found /\ again.bk = post

\* C22 (Cancel by id): on every Cancel the worker applies, cancelById returns
\* true iff an order with the target id rests; on true the book afterwards is
\* the book before without exactly that order, its Locator and its level if
\* the level became empty, every other order keeping its quantity and its
\* place in its queue; on false the book is unchanged; and cancelById of the
\* same id on the book afterwards returns false and changes nothing.
C22_CancelById == [][CancelStep]_vars

\* C22 witness: a Cancel of order 1 was applied and the book now holds only
\* order 2, whose node is the second one allocated in its level (address 3
\* behind the level at 1 and the first node at 2): order 1 rested in front of
\* order 2 in that level when it was cancelled, and the level was kept.
C22_Witness ==
    /\ wPc = "done" /\ evIn.op = "Cancel" /\ evIn.targetId = 1 /\ tradesCount = 0
    /\ procCount = 3
    /\ LET bk == books_[evIn.symbolId] IN
          /\ DOMAIN bk.idToLoc = {2}
          /\ bk.idToLoc[2].level = 1 /\ bk.idToLoc[2].it = 3
          /\ Cardinality(RestingAt(bk)) = 1

\* the worker step that applies a Cancel or a Replace whose target does not
\* rest in the book of the symbol it addresses
UnknownTarget ==
    /\ wPc = "top" /\ wPc' = "done" /\ evIn'.op \in {"Cancel", "Replace"}
    /\ RestsAt(BookOf(evIn'.symbolId), evIn'.targetId) = {}

\* a silent no-op that counts as processed
SilentNoOp ==
    /\ books_'[evIn'.symbolId] = BookOf(evIn'.symbolId)
    /\ \A s \in DOMAIN books_ : books_'[s] = books_[s]
    /\ emitT' = <<>> /\ emitE' = <<>>
    /\ tradeIdGen_' = tradeIdGen_ /\ tradesCount' = tradesCount
    /\ procCount' = procCount + 1

UnknownTargetStep == UnknownTarget => SilentNoOp

\* C23 as stated (unknown target): a Cancel or Replace whose target does not
\* rest in the addressed symbol's book leaves the book unchanged, inserts
\* nothing, emits no Trade and no Event, leaves tradeIdGen unchanged and
\* increments the processed counter by 1, whatever the symbol's status.
C23_UnknownTargetSilent == [][UnknownTargetStep]_vars

UnknownTargetOpenStep ==
    (UnknownTarget /\ (evIn'.op = "Cancel" \/ getSymbolStatus(evIn'.symbolId) = "Open"))
        => SilentNoOp

\* C23 amended: the same for a Cancel under any status and for a Replace that
\* addresses a symbol whose status is Open (a Replace for a Halted or Closed
\* symbol is answered by the gate with a Reject, whatever its target).
C23_UnknownTargetSilentWhenOpen == [][UnknownTargetOpenStep]_vars

\* C23 witness: a Replace with an id of its own was applied to an open symbol
\* whose book holds an order; neither its target nor the replacement rests
\* (the replacement would rest had the target been found), and nothing was
\* emitted.
C23_Witness ==
    /\ wPc = "done" /\ evIn.op = "Replace" /\ evIn.id # evIn.targetId
    /\ getSymbolStatus(evIn.symbolId) = "Open"
    /\ LET bk == books_[evIn.symbolId] IN
          /\ RestsAt(bk, evIn.targetId) = {} /\ RestsAt(bk, evIn.id) = {}
          /\ RestingAt(bk) # {}
    /\ emitT = <<>> /\ emitE = <<>> /\ procCount >= 2

(***************************************************************************)
(* Claims about the ingress path under fair scheduling.                    *)
(***************************************************************************)
RECURSIVE SumLen(_, _)
SumLen(m, keys) ==
    IF keys = {} THEN 0
    ELSE LET k == CHOOSE x \in keys : TRUE
         IN  Len(m[k]) + SumLen(m, keys \ {k})

\* the orders that submitFromDecoder accepted and that are not yet in an
\* inbox: in a mailbox, or in the hands of a producer thread
Upstream ==
    SumLen(mailbox, DOMAIN mailbox) + Cardinality({i \in DOMAIN thr : thr[i] = "spin"})

\* coordinator and engine are running
IngressRunning == icRunning /\ meRunning

\* Every step keeps each order exactly once on the path: submitFromDecoder
\* adds one order upstream; a producer thread that leaves its spin has
\* appended the order it held to the inbox of the order's shard, and to no
\* other; nothing else changes the number of orders upstream, and an inbox
\* changes only by such an append or by the worker's dequeue.
NoDropStep ==
    /\ Upstream' = Upstream + (submitted' - submitted)
                            - Cardinality({i \in DOMAIN thr : thr[i] = "spin" /\ thr'[i] # "spin"})
    /\ \A i \in DOMAIN thr :
          (thr[i] = "spin" /\ thr'[i] # "spin") =>
              LET sh == thrEv[i].symbolId % numShards IN
              /\ inbox'[sh] = Append(inbox[sh], thrEv[i])
              /\ \A other \in DOMAIN inbox \ {sh} : inbox'[other] = inbox[other]
    /\ (\A i \in DOMAIN thr : ~(thr[i] = "spin" /\ thr'[i] # "spin")) =>
          \A sh \in DOMAIN inbox :
              sh \in DOMAIN inbox' => (inbox'[sh] = inbox[sh] \/ inbox'[sh] = Tail(inbox[sh]))

\* C24 (ingress never drops): no step drops or duplicates an order between
\* submitFromDecoder and the inbox of its shard; and under fair scheduling of
\* the producer threads and the shard workers, whenever orders accepted by
\* submitFromDecoder are still upstream of the inboxes, a state follows in
\* which every one of them has been enqueued into its shard's inbox, or the
\* coordinator or the engine has stopped running.
C24_IngressNeverDrops ==
    /\ [][NoDropStep]_vars
    /\ (IngressRunning /\ Upstream > 0) ~> (Upstream = 0 \/ ~IngressRunning)

\* C24 witness: with coordinator and engine running, every order submitted
\* has left the mailboxes and the producers, the engine counted them all as
\* enqueued, a full inbox had made the producer spin (a counted refusal), and
\* the worker has dequeued at least one of them.
C24_Witness ==
    /\ IngressRunning /\ submitted = MaxSubmit /\ Upstream = 0
    /\ enq = MaxSubmit /\ drop > 0
    /\ SumLen(inbox, DOMAIN inbox) < MaxSubmit

(***************************************************************************)
(* Claims about the strategy gateway.                                      *)
(***************************************************************************)
\* the ids the decoder assigns in the model (order ids of the feed and of
\* random_sim's sequence), all below the gateway's base
DecoderIds == 0..(MaxOrders + 1)

\* C25 (gateway ids): the Orders one gateway has built carry ids that start
\* at the base of the gateway's generator and grow strictly from each order
\* to the next, whatever the calls were; so they are pairwise distinct and
\* none equals an id the decoder assigns below the base.
C25_GatewayIdsMonotone ==
    /\ \A i \in 1..Len(gwOut) :
          /\ gwOut[i].id >= GatewayIdBase
          /\ gwOut[i].id \notin DecoderIds
          /\ i = 1 => gwOut[i].id = GatewayIdBase
          /\ i > 1 => gwOut[i].id > gwOut[i - 1].id
    /\ \A i, j \in 1..Len(gwOut) : i # j => gwOut[i].id # gwOut[j].id
    /\ nextId_ = GatewayIdBase + Len(gwOut)

\* C25 witness: the gateway built a limit order, a Cancel and a Replace, in
\* that order.
C25_Witness ==
    /\ Len(gwOut) = 3
    /\ gwOut[1].op = "New" /\ gwOut[2].op = "Cancel" /\ gwOut[3].op = "Replace"
    /\ gwOut[3].id = GatewayIdBase + 2

(***************************************************************************)
(* Claims about the frame of tryEnqueue and tryDequeue.                    *)
(***************************************************************************)
\* the returns of the two calls, as steps of the producer and the consumer
EnqReturnsFalse == pPc = "check" /\ pPc' = "idle"
EnqReturnsTrue  == pPc = "store" /\ pPc' = "idle"
DeqReturnsFalse == cPc = "check" /\ cPc' = "idle"
DeqReturnsTrue  == cPc = "store" /\ cPc' = "idle"

\* a call in progress has read its own counter exactly, and can always take
\* its next step: it waits for nothing
CallsNeverBlock ==
    /\ pPc # "idle" => pHead = head_
    /\ cPc # "idle" => cTail = tail_
    /\ pPc # "idle" => ENABLED (EnqLoadTail \/ EnqFull \/ EnqWriteSlot \/ EnqStoreHead)
    /\ cPc # "idle" => ENABLED (DeqLoadHead \/ DeqEmpty \/ DeqReadSlot \/ DeqStoreTail)

\* a tryEnqueue that begins on a ring that is not full does not return false
\* at once
NotFullIsTried ==
    (rbState = "live" /\ ~EnqIsFull(head_, tail_)) => ~ENABLED EnqWrongMode

TryOpsStep ==
    \* the counter of the other side is read from the ring
    /\ (pPc = "loadTail" /\ pPc' # pPc) => pTail' = tail_
    /\ (cPc = "loadHead" /\ cPc' # cPc) => cHead' = head_
    \* tryEnqueue returns false exactly on head - tail >= capacity, and then
    \* changes nothing; otherwise it goes on to return true with head + 1
    /\ (pPc = "check" /\ pPc' # pPc) =>
          /\ EnqReturnsFalse <=> Sub64(head_, pTail) >= capacity_
          /\ ~EnqReturnsFalse => pPc' = "store"
    /\ EnqReturnsFalse =>
          /\ head_' = head_ /\ tail_' = tail_ /\ buffer_' = buffer_
          /\ accepted' = accepted
    /\ (pPc = "store" /\ pPc' # pPc) => EnqReturnsTrue
    /\ EnqReturnsTrue =>
          /\ head_' = Add64(head_, 1) /\ tail_' = tail_
          /\ accepted' = Append(accepted, pItem)
    \* tryDequeue returns false exactly on head = tail, and then changes
    \* nothing, the out argument included; otherwise it goes on to return
    \* true with tail + 1
    /\ (cPc = "check" /\ cPc' # cPc) =>
          /\ DeqReturnsFalse <=> cHead = tail_
          /\ ~DeqReturnsFalse => cPc' = "store"
    /\ DeqReturnsFalse =>
          /\ head_' = head_ /\ tail_' = tail_ /\ buffer_' = buffer_
          /\ cOut' = cOut /\ returned' = returned
    /\ (cPc = "store" /\ cPc' # cPc) => DeqReturnsTrue
    /\ DeqReturnsTrue =>
          /\ tail_' = Add64(tail_, 1) /\ head_' = head_ /\ buffer_' = buffer_
          /\ returned' = Append(returned, cOut)

TryOpsFrameOnceTried == []CallsNeverBlock /\ [][TryOpsStep]_vars
NotFullIsTriedWhenSingle == mode_ = "Single" => NotFullIsTried

\* an empty ring of capacity 2 built in ProducerMode::Multi, on which no
\* tryEnqueue has succeeded
MultiRingRefuses ==
    /\ rbState = "live" /\ mode_ = "Multi" /\ capacity_ = 2
    /\ head_ = 0 /\ tail_ = 0 /\ accepted = <<>> /\ ENABLED EnqWrongMode

(***************************************************************************)
(* Claims about priority and the market caps.                              *)
(***************************************************************************)
\* the resting orders of one side in priority order: best price first, and
\* within a level in order of insertion
RECURSIVE PriorityQueue(_, _, _)
PriorityQueue(bk, isBid, keys) ==
    IF keys = {} THEN <<>>
    ELSE LET best == IF isBid THEN MaxOf(keys) ELSE MinOf(keys)
         IN  SideMap(bk, isBid)[best].q \o PriorityQueue(bk, isBid, keys \ {best})

PriorityOf(bk, isBid) == PriorityQueue(bk, isBid, DOMAIN SideMap(bk, isBid))

\* The trades tr of one aggressor follow the priority queue pq of the side it
\* takes from: the i-th trade is against the i-th order of the queue, at
\* that order's price, and every order but the last one traded against is
\* filled to its full resting quantity before the next one is touched.
FollowsPriority(tr, pq, isBuy) ==
    /\ Len(tr) <= Len(pq)
    /\ \A i \in 1..Len(tr) :
          /\ (IF isBuy THEN tr[i].sellOrderId ELSE tr[i].buyOrderId) = pq[i].id
          /\ tr[i].priceCents = pq[i].priceCents
          /\ tr[i].qty <= pq[i].qty
          /\ i < Len(tr) => tr[i].qty = pq[i].qty

\* what is left of the side afterwards is the queue without the orders that
\* were filled in full, the last one traded against keeping what is left of it
RestOfQueue(tr, pq) ==
    IF tr = <<>> THEN pq
    ELSE LET n    == Len(tr)
             left == pq[n].qty - tr[n].qty
             tl   == SubSeq(pq, n + 1, Len(pq))
         IN  IF left <= 0 THEN tl ELSE <<[pq[n] EXCEPT !.qty = left]>> \o tl

PriorityStep ==
    (wPc = "top" /\ wPc' = "done" /\ evIn'.op = "New"
        /\ getSymbolStatus(evIn'.symbolId) = "Open")
    => LET o     == evIn'
           isBuy == o.side = "BUY"
           pre   == BookOf(o.symbolId)
           post  == books_'[o.symbolId]
           pq    == PriorityOf(pre, ~isBuy)
       IN  /\ FollowsPriority(emitT', pq, isBuy)
           /\ PriorityOf(post, ~isBuy) = RestOfQueue(emitT', pq)

\* C27 (price-time priority): the trades of every New limit or market order
\* run down the opposite side in priority order - best price first (lowest
\* ask for a buy, highest bid for a sell), insertion order within a level -
\* each resting order being filled in full before the next one is touched,
\* and the orders not reached keep their places.
C27_PriceTimePriority == [][PriorityStep]_vars

\* C27 witness: orders 1 and 2 were inserted in that order at one price, and
\* order 3 traded against both, against order 1 first.
C27_Witness ==
    /\ wPc = "done" /\ evIn.op = "New" /\ evIn.id = 3 /\ procCount = 3
    /\ Len(emitT) = 2
    /\ emitT[1].priceCents = emitT[2].priceCents
    /\ LET m1 == IF evIn.side = "BUY" THEN emitT[1].sellOrderId ELSE emitT[1].buyOrderId
           m2 == IF evIn.side = "BUY" THEN emitT[2].sellOrderId ELSE emitT[2].buyOrderId
       IN  m1 = 1 /\ m2 = 2

\* one order traded at two prices, at the better one first
TradedDownTwoLevels ==
    /\ wPc = "done" /\ evIn.op = "New" /\ Len(emitT) = 2
    /\ IF evIn.side = "BUY" THEN emitT[1].priceCents < emitT[2].priceCents
       ELSE emitT[1].priceCents > emitT[2].priceCents

\* the cumulative notional of a sequence of trades: sum of qty x price
RECURSIVE NotionalOf(_)
NotionalOf(tr) ==
    IF tr = <<>> THEN 0 ELSE tr[1].qty * tr[1].priceCents + NotionalOf(Tail(tr))

\* a worker step that processes a New market order of an Open symbol
MarketOrderStep ==
    /\ wPc = "top" /\ wPc' = "done"
    /\ evIn'.op = "New" /\ evIn'.type = "MARKET"
    /\ getSymbolStatus(evIn'.symbolId) = "Open"

\* the price levels of one side that the step removed from the book
LevelsConsumed(pre, post, isBid) ==
    DOMAIN SideMap(pre, isBid) \ DOMAIN SideMap(post, isBid)

MarketCapsStep ==
    MarketOrderStep
    => LET o     == evIn'
           isBuy == o.side = "BUY"
           pre   == BookOf(o.symbolId)
           post  == books_'[o.symbolId]
           pq    == PriorityOf(pre, ~isBuy)
           tr    == emitT'
           want  == Min(o.qty, caps.qty)
       IN  /\ TradedQty(tr) <= want
           /\ NotionalOf(tr) <= caps.notional
           \* no fill is cut down to fit under the notional cap
           /\ Len(tr) <= Len(pq)
           /\ \A i \in 1..Len(tr) :
                 tr[i].qty = Min(want - TradedQty(SubSeq(tr, 1, i - 1)), pq[i].qty)
           /\ Cardinality(LevelsConsumed(pre, post, ~isBuy)) <= caps.levels
           /\ Cardinality({tr[i].priceCents : i \in 1..Len(tr)}) <= caps.levels

\* C28 (market caps): for one market order the total matched quantity is at
\* most min(order.qty, marketMaxQty), the cumulative notional of its trades
\* is at most marketMaxNotional, every fill has the size it would have
\* without the notional cap (a fill that would exceed the cap is left out
\* whole, not cut down), and at most marketMaxLevels price levels are
\* consumed or traded at.
C28_MarketCapsBound == [][MarketCapsStep]_vars

\* C28 witness: a market order for more than marketMaxQty was filled for
\* exactly marketMaxQty and left liquidity behind.
C28_Witness ==
    /\ wPc = "done" /\ evIn.op = "New" /\ evIn.type = "MARKET"
    /\ evIn.qty > caps.qty
    /\ TradedQty(emitT) = caps.qty
    /\ HasBest(BookOf(evIn.symbolId), evIn.side # "BUY")

\* a sweep that the notional cap stopped after its first fill
NotionalCapStops ==
    /\ wPc = "done" /\ evIn.op = "New" /\ evIn.type = "MARKET"
    /\ Len(emitT) = 1
    /\ TradedQty(emitT) < Min(evIn.qty, caps.qty)
    /\ caps.levels > 1
    /\ HasBest(BookOf(evIn.symbolId), evIn.side # "BUY")

\* a sweep that the level cap stopped
LevelsCapStops ==
    /\ wPc = "done" /\ evIn.op = "New" /\ evIn.type = "MARKET"
    /\ Len(emitT) = caps.levels
    /\ TradedQty(emitT) < Min(evIn.qty, caps.qty)
    /\ NotionalOf(emitT) + 1 < caps.notional
    /\ HasBest(BookOf(evIn.symbolId), evIn.side # "BUY")

\* neither the quantity cap nor the notional cap is what ended the sweep of
\* order o: the order asked for no more than marketMaxQty, and the next fill
\* would have stayed under marketMaxNotional
OtherCapsAllowMore(o, tr, post) ==
    /\ o.qty <= caps.qty
    /\ TradedQty(tr) < o.qty
    /\ HasBest(post, o.side # "BUY")
    /\ LET next == PeekBest(post, o.side # "BUY")
       IN  NotionalOf(tr) + Min(o.qty - TradedQty(tr), next.qty) * next.priceCents
               <= caps.notional

LevelsCapStep ==
    MarketOrderStep
    => LET o    == evIn'
           pre  == BookOf(o.symbolId)
           post == books_'[o.symbolId]
       IN  OtherCapsAllowMore(o, emitT', post)
           => Cardinality(LevelsConsumed(pre, post, o.side # "BUY")) = caps.levels

\* C29 (marketMaxLevels counts price levels): a market order that still
\* wants quantity, with liquidity left and the quantity and notional caps
\* not in the way, stops only once marketMaxLevels whole price levels have
\* been consumed.
C29_LevelsCapCountsLevels == [][LevelsCapStep]_vars

OrdersCapStep ==
    MarketOrderStep
    => LET o     == evIn'
           isBuy == o.side = "BUY"
           pre   == BookOf(o.symbolId)
           post  == books_'[o.symbolId]
       IN  OtherCapsAllowMore(o, emitT', post)
           => Len(PriorityOf(pre, ~isBuy)) - Len(PriorityOf(post, ~isBuy)) = caps.levels

\* what the code does instead: in the same situation the sweep stops once
\* marketMaxLevels resting orders have been consumed, whatever their levels
LevelsCapCountsOrders == [][OrdersCapStep]_vars

\* a sweep stopped after marketMaxLevels orders of a single level, the level
\* still holding an order
StoppedInsideLevel ==
    /\ wPc = "done" /\ evIn.op = "New" /\ evIn.type = "MARKET"
    /\ Len(emitT) = caps.levels
    /\ OtherCapsAllowMore(evIn, emitT, BookOf(evIn.symbolId))
    /\ PeekBest(BookOf(evIn.symbolId), evIn.side # "BUY").priceCents
           = emitT[Len(emitT)].priceCents

\* the orders of a queue, front to back, without their node addresses
OrdersOf(q) == [i \in 1..Len(q) |-> <<q[i].id, q[i].qty>>]

LosesPriorityStep ==
    ReplaceOfResting
    => LET o    == evIn'
           pre  == BookOf(o.symbolId)
           post == books_'[o.symbolId]
       IN  /\ Cardinality(RestsAt(post, o.id)) = 1
           /\ \A k \in RestsAt(post, o.id) :
                 LET lk     == <<k[1], k[2]>>
                     before == SelectSeq(QueueOf(pre, lk), LAMBDA n : n.id # o.targetId)
                     after  == QueueOf(post, lk)
                 IN  /\ k[3] = Len(after)
                     /\ OrdersOf(SubSeq(after, 1, Len(after) - 1)) = OrdersOf(before)

\* C30 (Replace loses time priority): after a Replace of a resting order,
\* the replacement is the last element of the queue of the level it rests
\* at, and in front of it are, in their old order and with their old
\* quantities, exactly the orders that rested at that price before (the
\* target itself excepted) - whatever the new price and quantity are.
C30_ReplaceLosesPriority == [][LosesPriorityStep]_vars

\* C30 witness: orders 1 and 2 rested in that order at one level; a Replace
\* of order 1 that names the level's own price and the smallest quantity
\* was applied, and the replacement now rests behind order 2 in that level.
C30_Witness ==
    /\ wPc = "done" /\ evIn.op = "Replace" /\ evIn.targetId = 1 /\ procCount = 3
    /\ evIn.newQty = 1
    /\ \E lk \in LevelKeys(BookOf(evIn.symbolId)) :
          LET lvl == SideMap(BookOf(evIn.symbolId), lk[1])[lk[2]]
          IN  /\ lk[2] = evIn.newPriceCents
              /\ lvl.h = 1
              /\ Len(lvl.q) = 2
              /\ lvl.q[1].id = 2 /\ lvl.q[1].h = 3
              /\ lvl.q[2].id = evIn.id /\ lvl.q[2].h = 4 /\ lvl.q[2].qty = 1

(***************************************************************************)
(* Claims about FOK orders and about what a fill emits.                    *)
(***************************************************************************)
\* the quantity resting on the side opposite to order o at prices that o's
\* limit price reaches: asks priced <= o.priceCents for a buy, bids priced
\* >= o.priceCents for a sell
ReachableQty(bk, o) ==
    LET isBuy == o.side = "BUY"
    IN  SumQty(SelectSeq(PriorityOf(bk, ~isBuy),
                         LAMBDA n : IF isBuy THEN n.priceCents <= o.priceCents
                                    ELSE n.priceCents >= o.priceCents))

\* a worker step that processes a New FOK limit order of an Open symbol
FOKLimitStep ==
    /\ wPc = "top" /\ wPc' = "done"
    /\ evIn'.op = "New" /\ evIn'.type = "LIMIT" /\ evIn'.tif = "FOK"
    /\ getSymbolStatus(evIn'.symbolId) = "Open"

RejectOf(o) ==
    [type |-> "Reject", orderId |-> o.id, relatedId |-> 0, symbolId |-> o.symbolId,
     side |-> o.side, priceCents |-> o.priceCents, qty |-> o.qty,
     remaining |-> 0, liquidity |-> "None"]

FOKStep ==
    FOKLimitStep
    => LET o    == evIn'
           pre  == BookOf(o.symbolId)
           post == books_'[o.symbolId]
           rejected == \E i \in 1..Len(emitE') : emitE'[i].type = "Reject"
       IN  /\ rejected <=> ReachableQty(pre, o) < o.qty
           /\ rejected =>
                 /\ emitE' = <<RejectOf(o)>>
                 /\ emitT' = <<>>
                 /\ post = pre
                 /\ tradeIdGen_' = tradeIdGen_
                 /\ tradesCount' = tradesCount

\* C31 (FOK feasibility): a New FOK limit order is rejected iff the quantity
\* resting on the opposite side at prices its limit reaches is strictly less
\* than its quantity; a rejected FOK order emits exactly one Reject and no
\* Trade and leaves the book, the locators and tradeIdGen unchanged.
C31_FOKFeasibility == [][FOKStep]_vars

\* C31 witness: a FOK limit order was rejected although part of its quantity
\* was resting within its limit.
C31_Witness ==
    /\ wPc = "done" /\ evIn.op = "New" /\ evIn.type = "LIMIT" /\ evIn.tif = "FOK"
    /\ emitE = <<RejectOf(evIn)>>
    /\ ReachableQty(BookOf(evIn.symbolId), evIn) > 0
    /\ ReachableQty(BookOf(evIn.symbolId), evIn) < evIn.qty

\* a FOK limit order whose quantity was exactly what its limit reaches traded
FOKFilledExactly ==
    /\ wPc = "done" /\ evIn.op = "New" /\ evIn.type = "LIMIT" /\ evIn.tif = "FOK"
    /\ TradedQty(emitT) = evIn.qty
    /\ Len(emitT) = 2
    /\ ReachableQty(BookOf(evIn.symbolId), evIn) = 0

\* the Exec events among the events of one order, in order
ExecsOf(evs) == SelectSeq(evs, LAMBDA e : e.type = "Exec")

\* a worker step that processes a New order of an Open symbol
NewOrderStep ==
    /\ wPc = "top" /\ wPc' = "done" /\ evIn'.op = "New"
    /\ getSymbolStatus(evIn'.symbolId) = "Open"

\* The i-th fill of order o emitted Trade t and Exec e against the resting
\* order m; wanted is the quantity the order set out with and filled what
\* its fills up to this one add up to.
FillAgrees(o, t, e, m, wanted, filled) ==
    /\ t.priceCents = e.priceCents /\ t.qty = e.qty
    /\ t.symbolId = o.symbolId /\ e.symbolId = o.symbolId
    /\ IF o.side = "BUY" THEN t.buyOrderId = o.id /\ t.sellOrderId = m.id
       ELSE t.sellOrderId = o.id /\ t.buyOrderId = m.id
    /\ e.orderId = o.id /\ e.relatedId = m.id
    /\ e.side = o.side /\ e.liquidity = "Taker"
    /\ e.remaining = wanted - filled

\* every fill of the order of this step emitted one Trade and one Exec that
\* agree, the Exec's remaining being counted down from wanted
FillsAgree(wanted) ==
    LET o  == evIn'
        tr == emitT'
        ex == ExecsOf(emitE')
        pq == PriorityOf(BookOf(o.symbolId), o.side # "BUY")
    IN  /\ Len(ex) = Len(tr)
        /\ Len(tr) <= Len(pq)
        /\ tradesCount' = tradesCount + Len(tr)
        /\ tradeIdGen_' = tradeIdGen_ + Len(tr)
        /\ \A i \in 1..Len(tr) :
              /\ i <= Len(ex) /\ i <= Len(pq)
              /\ FillAgrees(o, tr[i], ex[i], pq[i], wanted, TradedQty(SubSeq(tr, 1, i)))

\* C32 (Trade and Exec of a fill): every fill emits exactly one Trade and
\* one Exec that agree in price and quantity; the Trade names aggressor and
\* resting order according to the aggressor's side; the Exec carries the
\* aggressor's id, the resting order's id, liquidity Taker and as remaining
\* the aggressor's unfilled quantity (its quantity less what was filled so
\* far); tradesCount grows by one per fill.
C32_FillEmitsTradeAndExec == [][NewOrderStep => FillsAgree(evIn'.qty)]_vars

\* what the code does instead: the same, with the remaining of a market
\* order counted down from min(order.qty, marketMaxQty)
FillsAgreeOnCappedQty ==
    [][NewOrderStep => FillsAgree(IF evIn'.type = "MARKET" THEN Min(evIn'.qty, caps.qty)
                                  ELSE evIn'.qty)]_vars

\* a market order for more than marketMaxQty whose last Exec says that
\* nothing remains
CappedOrderReportsNothingLeft ==
    /\ wPc = "done" /\ evIn.op = "New" /\ evIn.type = "MARKET"
    /\ evIn.qty > caps.qty
    /\ emitE # <<>>
    /\ emitE[Len(emitE)].type = "Exec" /\ emitE[Len(emitE)].remaining = 0
    /\ TradedQty(emitT) < evIn.qty

(***************************************************************************)
(* Claims about the trade ids and the overflow of the outbound rings.      *)
(***************************************************************************)
\* the consumer of the trade ring took a Trade in this step
TradeDequeued == Len(tradeRing') < Len(tradeRing)

TradeIdStep ==
    TradeDequeued
    => LET id      == lastTradeId'
           between == {d \in droppedTradeIds : lastTradeId < d /\ d < id}
       IN  /\ id = Head(tradeRing).rec.tradeId
           /\ id > lastTradeId
           /\ lastTradeId = 0 => id = 1
           \* the ids skipped are exactly those of the Trades the ring refused
           /\ id - lastTradeId - 1 = Cardinality(between)
           /\ between = {} => id = lastTradeId + 1

\* C33 (monotone trade ids): the tradeIds of the Trades dequeued from a
\* shard's trade ring are strictly increasing in dequeue order whatever
\* their symbols, the first is 1, and two consecutive ones differ by exactly
\* 1 unless a Trade between them was refused by the full ring.
C33_TradeIdsMonotone == [][TradeIdStep]_vars

\* C33 witness: the consumer took trade 1 and the trade 2 waiting in the
\* ring belongs to the other symbol.
C33_Witness ==
    /\ lastTradeId = 1
    /\ tradeRing # <<>>
    /\ tradeRing[1].rec.tradeId = 2
    /\ \E sym \in symbols : sym # tradeRing[1].rec.symbolId
          /\ HasBest(BookOf(sym), TRUE) = FALSE /\ HasBest(BookOf(sym), FALSE) = FALSE
          /\ sym \in DOMAIN books_
    /\ procCount = 4

\* the consumer took trade 1, trade 2 was refused by the full ring, and
\* trade 3 is waiting
GapAfterDrop ==
    /\ lastTradeId = 1
    /\ droppedTradeIds = {2}
    /\ tradeRing # <<>> /\ tradeRing[1].rec.tradeId = 3

\* what tryEnqueue does with a record on a ring of the shard's capacity
PushedOrDiscarded(ring, ring2, rec) ==
    IF Len(ring) >= outCapacity THEN ring2 = ring
    ELSE ring2 = Append(ring, rec)

OverflowStep ==
    \* applying an order does not look at the rings: the fills are applied to
    \* the book and counted whether or not their records will fit
    /\ NewOrderStep
          => LET o  == evIn'
                 pq == PriorityOf(BookOf(o.symbolId), o.side # "BUY")
             IN  /\ FollowsPriority(emitT', pq, o.side = "BUY")
                 /\ PriorityOf(books_'[o.symbolId], o.side # "BUY") = RestOfQueue(emitT', pq)
                 /\ tradeIdGen_' = tradeIdGen_ + Len(emitT')
                 /\ tradesCount' = tradesCount + Len(emitT')
                 /\ procCount' = procCount + 1
                 /\ UNCHANGED <<tradeRing, eventRing>>
    \* handing a Trade over: it is appended, or discarded when the ring is full
    /\ (wPc = "done" /\ wPc' = "done" /\ emitT' # emitT)
          => /\ emitT' = Tail(emitT)
             /\ PushedOrDiscarded(tradeRing, tradeRing', [k |-> procCount, rec |-> Head(emitT)])
             /\ UNCHANGED <<eventRing, emitE, books_, tradeIdGen_, tradesCount, procCount>>
    \* handing an Event over, likewise
    /\ (wPc = "done" /\ wPc' = "done" /\ emitE' # emitE)
          => /\ emitE' = Tail(emitE)
             /\ PushedOrDiscarded(eventRing, eventRing', [k |-> procCount, rec |-> Head(emitE)])
             /\ UNCHANGED <<tradeRing, emitT, books_, tradeIdGen_, tradesCount, procCount>>

\* C34 (outbound overflow): a record that does not fit in its ring is
\* discarded and the ring left as it is; the fill it reports is applied to
\* the book and counted in tradeIdGen and tradesCount all the same; and the
\* worker, without any step of a consumer, always gets through the records
\* of its order and back to the top of its loop, the order counted in
\* processedCount.
C34_OverflowNeverStalls ==
    /\ [][OverflowStep]_vars
    /\ \A n \in 1..(MaxOrders + 1) :
          (wPc = "done" /\ procCount = n) ~> (wPc = "top" /\ procCount = n)

\* C34 witness: the worker is back at the top of its loop after an order one
\* of whose Trades the full trade ring refused; the ring is still full.
C34_Witness ==
    /\ wPc = "top"
    /\ droppedTradeIds # {}
    /\ Len(tradeRing) = outCapacity
    /\ tradesCount = tradeIdGen_
    /\ \E d \in droppedTradeIds : d <= tradeIdGen_

\* the same for an Event that the full event ring refused: three orders were
\* processed without a fill, the ring of capacity 1 still holds the Event of
\* the first, and the worker is back at the top of its loop
EventDiscarded ==
    /\ wPc = "top" /\ procCount = 3
    /\ outCapacity = 1 /\ Len(eventRing) = 1 /\ lastEvent = 0
    /\ eventRing[1].k = 1
    /\ tradeIdGen_ = 0

(***************************************************************************)
(* Claims about stopping the coordinator and about the engine's lifecycle. *)
(***************************************************************************)
\* C35 (stop() terminates): once IngressCoordinator::stop has set running to
\* false and waits in its joins, every producer thread exits and stop()
\* returns.
C35_StopTerminates == icJoining ~> ~icJoining

\* a producer thread holds an order and the engine is not running: every
\* enqueueToShard of its inner spin returns false
SpinsOnStoppedEngine == \E i \in DOMAIN thr : thr[i] = "spin" /\ ~meRunning

\* what the code does instead: stop() returns unless a producer thread is
\* caught in its inner spin while the engine is not running
StopTerminatesUnlessSpinning == icJoining ~> (~icJoining \/ SpinsOnStoppedEngine)

\* stop() waits for a producer thread that spins on an engine that was shut
\* down
StopWaitsForSpinner == icJoining /\ SpinsOnStoppedEngine

\* the worker thread of shard sh exists and has not left its loop
WorkerLive(sh) == WorkerOf(sh) \in {"top", "body"}

Shards == 0..(numShards - 1)

\* the control thread is in neither start() nor shutdown()
ControlIdle == meState = "constructed" /\ ctl.pc = "idle"

LifecycleInv ==
    \* start() on a running engine and shutdown() on a stopped engine find
    \* their compare_exchange failing: the only step they have changes nothing
    /\ (ControlIdle /\ meRunning) => (ENABLED StartOnRunning /\ ~ENABLED StartCas)
    /\ (ControlIdle /\ ~meRunning) => (ENABLED ShutdownOnStopped /\ ~ENABLED ShutdownCas)
    \* the running flag is true and start() has returned: every worker runs
    /\ (ControlIdle /\ meRunning)
          => \A sh \in Shards : sh \in running_ /\ WorkerLive(sh)
    \* a thread exists for shards of the engine only
    /\ \A sh \in DOMAIN worker_ : sh \in Shards

LifecycleStep ==
    \* a worker thread is created for a shard that has none
    /\ \A sh \in Shards :
          (sh \notin running_ /\ sh \in running_') =>
              (WorkerOf(sh) = "none" /\ worker_'[sh] = "top")
    /\ \A sh \in DOMAIN worker_' :
          (WorkerOf(sh) = "none" /\ worker_'[sh] # "none") => (sh \notin running_ /\ sh \in running_')
    \* start() returns: every shard reports running
    /\ (ctl.pc \notin {"idle", "stopShards", "join"} /\ ctl'.pc = "idle")
          => \A sh \in Shards : sh \in running_'
    \* shutdown() returns: every worker has exited and was joined
    /\ (ctl.pc \in {"stopShards", "join"} /\ ctl'.pc = "idle")
          => \A sh \in Shards : sh \notin running_' /\ worker_'[sh] = "none"

\* C36 (engine lifecycle): a shard has at most one worker thread at any
\* time (a thread is created only for a shard that has none); start() on a
\* running engine and shutdown() on a stopped engine are no-ops; when start()
\* returns every shard reports running; when shutdown() returns every worker
\* has exited and been joined; and while the running flag is true after
\* start() returned, all shard workers are running.
C36_EngineLifecycle == []LifecycleInv /\ [][LifecycleStep]_vars

\* C36 witness: the engine of two shards was started, shut down (both
\* shards were stopped) and started again; start() has returned and both
\* workers run, one of them with an order in its inbox.
C36_Witness ==
    /\ ControlIdle /\ meRunning /\ numShards = 2
    /\ DOMAIN owed = Shards
    /\ \A sh \in Shards : WorkerLive(sh)
    /\ \E sh \in Shards : inbox[sh] # <<>>

(***************************************************************************)
(* Claims about the order in which a shard sees the orders of a symbol.    *)
(***************************************************************************)
\* the elements of the sequence s
SeqRange(s) == {s[i] : i \in DOMAIN s}

\* the orders that submitFromDecoder accepted and that no shard has dequeued
\* yet: in a mailbox, in the hands of a spinning producer thread, or in an
\* inbox
InFlight ==
    UNION {SeqRange(mailbox[i]) : i \in DOMAIN mailbox}
      \cup {thrEv[i] : i \in {j \in DOMAIN thr : thr[j] = "spin"}}
      \cup UNION {SeqRange(inbox[sh]) : sh \in DOMAIN inbox}

\* the worker of shard sh dequeues in this step
DequeuedBy(sh) == inbox[sh] # <<>> /\ inbox'[sh] = Tail(inbox[sh])

\* No order is lost or duplicated on the way: the orders in flight carry
\* distinct numbers among those handed out, and a step takes an order out
\* of flight only by a shard's dequeue, which takes exactly one.  So the
\* orders dequeued so far are the submitted ones that are not in flight.
NothingLostStep ==
    /\ InFlight \subseteq InFlight' \cup {Head(inbox[sh]) : sh \in {s \in DOMAIN inbox : DequeuedBy(s)}}
    /\ \A a, b \in InFlight' : a.id = b.id => a = b
    /\ \A a \in InFlight' : a.id \in 1..submitted'

\* the order the worker of shard sh dequeues is the oldest order of its
\* symbol that is still in flight: every same-symbol order submitted before
\* it was dequeued before it, every one submitted after it is dequeued after
\* it, and by the shard sh
OldestOfSymbolStep ==
    \A sh \in DOMAIN inbox :
       DequeuedBy(sh) =>
          LET b == Head(inbox[sh]) IN
          /\ b.symbolId % numShards = sh
          /\ \A a \in InFlight : a.symbolId = b.symbolId => a.id >= b.id

\* C37: for every number of shards, of producers, every ring and mailbox
\* capacity and every interleaving of the threads, two orders of the same
\* symbol submitted by the decoder thread one after the other are dequeued
\* by the symbol's shard in the order of their submission.
C37_PerSymbolOrder == [][NothingLostStep /\ OldestOfSymbolStep]_vars

\* two orders of a symbol of a shard other than shard 0 were submitted: the
\* first is in the shard's inbox of capacity 1, about to be dequeued, and the
\* second waits behind it in the hands of the shard's producer thread
C37_Witness ==
    /\ submitted = 2
    /\ meRunning
    /\ ringCapacity = 1
    /\ \E sh \in DOMAIN inbox, idx \in DOMAIN thr :
          /\ sh # 0
          /\ Len(inbox[sh]) = 1
          /\ Head(inbox[sh]).id = 1
          /\ thr[idx] = "spin"
          /\ thrShard[idx] = sh
          /\ thrEv[idx].id = 2
          /\ thrEv[idx].symbolId = Head(inbox[sh]).symbolId

(***************************************************************************)
(* Claims about the engine's counters.                                     *)
(***************************************************************************)
\* an order enters the inbox of a shard in this step
AcceptedInto(sh) == Len(inbox'[sh]) = Len(inbox[sh]) + 1

\* enqueuedCount is the number of orders accepted into the inboxes since the
\* engine was started: it is 0 when start() sets the running flag, it grows
\* by 1 with every order that enters an inbox, and nothing else changes it
EnqCountsAcceptedStep ==
    IF ~meRunning /\ meRunning'
    THEN enq' = 0
    ELSE IF \E sh \in DOMAIN inbox : AcceptedInto(sh)
    THEN enq' = enq + 1
    ELSE enq' = enq

\* C38 (counter consistency): with orders entering the inboxes through
\* submit() / enqueueToShard() only, in every state of every interleaving of
\* start(), the submitting thread and the shard workers, processedCount is at
\* most enqueuedCount, and enqueuedCount is the number of orders accepted
\* into shard inboxes since the engine was started.
C38_CounterConsistency ==
    /\ [](procCount <= enq)
    /\ [][EnqCountsAcceptedStep]_vars

\* nothing is going on: start() has returned, the caller's submit() has
\* returned, every inbox is empty and every worker is back at the top of
\* its loop
EngineAtRest ==
    /\ meRunning /\ ControlIdle /\ CallReturned
    /\ \A sh \in DOMAIN inbox : inbox[sh] = <<>> /\ WorkerOf(sh) = "top"

\* start() has run once only and the engine is at rest: one order was
\* accepted and processed, enqueuedCount reads 0 and processedCount 1
ProcessedExceedsEnqueued ==
    /\ EngineAtRest
    /\ DOMAIN owed = {}
    /\ submitted = 1 /\ callPc = "true"
    /\ procCount = 1 /\ enq = 0

\* start() has run once only and the engine is at rest: one order was
\* accepted and processed before start() stored its zeros, and both counters
\* read 0
AcceptedNeverCounted ==
    /\ EngineAtRest
    /\ DOMAIN owed = {}
    /\ submitted = 1 /\ callPc = "true"
    /\ procCount = 0 /\ enq = 0

(***************************************************************************)
(* Claims about the quantities of resting orders and of fills.             *)
(***************************************************************************)
\* the quantities of the orders resting in the books
RestingQtys ==
    UNION {{NodeAt(books_[s], k).qty : k \in RestingAt(books_[s])} : s \in DOMAIN books_}

\* the quantities of the Trades and Execs of the order just processed
FillQtys ==
    {emitT[i].qty : i \in DOMAIN emitT} \cup {e.qty : e \in SeqRange(ExecsOf(emitE))}

\* C39 (positive quantities): after any sequence of New, Cancel and Replace
\* orders every order resting in a book has a quantity of at least 1, and
\* every Trade and every Exec emitted has a quantity of at least 1.
C39_PositiveQuantities ==
    /\ \A q \in RestingQtys : q >= 1
    /\ \A q \in FillQtys : q >= 1

\* an order met a resting order of quantity 0: a Trade and an Exec of
\* quantity 0 went out, and the order itself still has all its quantity
ZeroQtyTrade ==
    /\ wPc = "done" /\ evIn.op = "New"
    /\ \E i \in DOMAIN emitT : emitT[i].qty = 0
    /\ \E e \in SeqRange(ExecsOf(emitE)) : e.qty = 0 /\ e.remaining = evIn.qty

\* the one way in: a step from a state of positive quantities leads to a
\* state of positive quantities unless its order is a Replace that carries
\* newQty = 0
PositiveButForZeroReplace ==
    [][(C39_PositiveQuantities /\ wPc = "top" /\ wPc' = "done"
           /\ ~(evIn'.op = "Replace" /\ evIn'.newQty = 0))
         => C39_PositiveQuantities']_vars

(***************************************************************************)
(* Claims about the gateway's Cancel and Replace on their way to a book.   *)
(***************************************************************************)
\* a Cancel or Replace that the gateway built
FromGateway(o) == o.id >= GatewayIdBase /\ o.op \in {"Cancel", "Replace"}

\* the gateway's Cancels and Replaces name symbol 0, and a Replace says BUY
\* and carries no quantity and no price of its own
GatewayRecords ==
    \A i \in DOMAIN gwOut :
       gwOut[i].op \in {"Cancel", "Replace"} =>
          /\ gwOut[i].symbolId = 0
          /\ gwOut[i].op = "Replace" =>
                (gwOut[i].side = "BUY" /\ gwOut[i].qty = 0 /\ gwOut[i].priceCents = 0)

\* they are found in no inbox but that of shard 0, and a producer thread
\* that holds one is bound for shard 0
RoutedToShardZero ==
    /\ \A sh \in DOMAIN inbox : \A i \in DOMAIN inbox[sh] : FromGateway(inbox[sh][i]) => sh = 0
    /\ \A idx \in DOMAIN thr : (thr[idx] = "spin" /\ FromGateway(thrEv[idx])) => thrShard[idx] = 0

\* the worker that applies one is that of shard 0, and the books of all
\* symbols but symbol 0 are as before, the target's book among them
OnlyBookZeroStep ==
    \A sh \in DOMAIN inbox :
       (DequeuedBy(sh) /\ FromGateway(Head(inbox[sh]))) =>
          /\ sh = 0
          /\ \A s \in (DOMAIN books_ \cup DOMAIN books_') \ {0} :
                s \in DOMAIN books_ /\ s \in DOMAIN books_' /\ books_'[s] = books_[s]

\* C40: the Orders that the gateway's submitCancel and submitReplace build
\* carry symbolId 0 (a Replace also side BUY and qty and price 0); they are
\* routed to shard 0 and applied to the book of symbol 0 only, so that a
\* target resting in the book of another symbol is left as it was.
C40_GatewayCancelOnlySymbolZero ==
    /\ [](GatewayRecords /\ RoutedToShardZero)
    /\ [][OnlyBookZeroStep]_vars

\* the gateway's own buy order rests in the book of symbol 1; the gateway's
\* Cancel or Replace that names it has gone through shard 0 and was applied,
\* and the order rests as before
C40_Witness ==
    /\ Len(gwOut) = 2
    /\ gwOut[1].op = "New" /\ gwOut[1].symbolId = 1
    /\ FromGateway(gwOut[2]) /\ gwOut[2].targetId = gwOut[1].id
    /\ InFlight = {}
    /\ procCount = 2
    /\ \A sh \in DOMAIN inbox : WorkerOf(sh) = "top"
    /\ 1 \in DOMAIN books_
    /\ RestsAt(books_[1], gwOut[1].id) # {}

\* the same Cancel finds a target that rests in the book of symbol 0
CancelledInBookZero ==
    /\ Len(gwOut) = 2
    /\ gwOut[1].op = "New" /\ gwOut[1].symbolId = 0
    /\ gwOut[2].op = "Cancel" /\ gwOut[2].targetId = gwOut[1].id
    /\ InFlight = {}
    /\ procCount = 2
    /\ 0 \in DOMAIN books_
    /\ RestingAt(books_[0]) = {}
=============================================================================
